---- MODULE Spec2Model ----
(***************************************************************************)
(* Request-execution pipeline of the httpclient package: the token-bucket  *)
(* RateLimiter (Wait / refill), the RetryPolicy and Client.doWithOptions.  *)
(*                                                                         *)
(* Time is a discrete clock `now` (one tick is the time unit).  The        *)
(* limiter's float64 token count is kept exactly as a rational: `tokens`   *)
(* holds tokens * duration, so that one token is `duration` units and the  *)
(* refill of `elapsed` ticks is elapsed * requests units.                  *)
(***************************************************************************)
EXTENDS Integers, Sequences, FiniteSets, TLC

\* ---------------------------------------------------------------- bounds
NumCallers == 3          \* goroutines calling RateLimiter.Wait directly
MaxPermits == 2          \* largest `requests` given to NewRateLimiter
MaxWindow == 2           \* largest `duration` (ticks) given to NewRateLimiter
MaxTime == 3             \* the clock stops advancing here
MaxPolicyAttempts == 3   \* largest RetryPolicy.MaxAttempts
MaxOthers == 2           \* permits taken by other requests of the same client
LiveCallers == 2         \* goroutines calling Wait once the clock runs without end
MaxHeaderLen == 2        \* longest Retry-After value given to ParseRetryAfter
MaxDelayArg == 10        \* largest InitialDelay and MaxDelay (ticks) given to Backoff
MaxAttemptArg == 5       \* largest attempt number given to Backoff
MaxTimeout == 2           \* largest cfg.timeout (ticks) given to WithRequestTimeout
MaxClientTimeout == 1     \* largest c.timeout (ticks) given to WithTimeout
MaxSequence == 2           \* longest sequence given to AddResponseSequence

Max(a, b) == IF a >= b THEN a ELSE b
Min(a, b) == IF a <= b THEN a ELSE b

\* goroutine 0 issues the logical request under observation; goroutines
\* 1 .. NumCallers call Wait directly.  Other stands for the other requests
\* of the same client, which share nothing with the observed one but the
\* limiter.
Procs == 0 .. NumCallers
Callers == 1 .. NumCallers
Requests == {0}
Other == 1

RECURSIVE SumOver(_, _)
SumOver(f, S) ==
    IF S = {} THEN 0
    ELSE LET x == CHOOSE y \in S : TRUE IN f[x] + SumOver(f, S \ {x})

\* ---------------------------------------------------------------- state
VARIABLES
    now,          \* time.Now()
    rateLimiter,  \* c.rateLimiter != nil
    refillRate,   \* [requests, duration]: requests / duration tokens per tick
    tokens,       \* r.tokens * refillRate.duration
    maxTokens,    \* r.maxTokens * refillRate.duration
    lastRefill,   \* r.lastRefill
    mu,           \* r.mu: 0 when free, else the goroutine holding it
    pc,           \* position of each goroutine
    ctx,          \* the goroutine's context: "live", "canceled", "deadline"
    timer,        \* expiry time of the goroutine's time.Timer (0: stopped)
    waitCtx,      \* ctx as it was when the goroutine called Wait
    waitErr,      \* value returned by Wait: "nil", "canceled", "deadline"
    debited,      \* number of r.tokens-- executed by the goroutine
    slept,        \* the goroutine reached Wait's select at least once
    checked,      \* the goroutine ran Wait's refill-and-debit check at least once
    grantLog,     \* grantLog[t]: number of debits performed at time t
    retryPolicy,  \* c.retryPolicy (field nil: no policy configured)
    result,       \* the caller passed a result target (result != nil)
    attempt,      \* loop variable of doWithOptions
    response,     \* local variable response
    lastErr,      \* local variable lastErr
    retResp,      \* response returned by doWithOptions
    retErr,       \* error returned by doWithOptions
    attempts,     \* number of times the middleware chain was invoked
    retryable,    \* number of attempts answered with a retryable status
    lastOutcome,  \* what the middleware chain handed back in the latest attempt
    waits,        \* number of waitForRetry calls
    middlewares,  \* c.middlewares, in registration order
    body,         \* the body argument of the request
    bodyBytes,    \* local variable bodyBytes
    encodes,      \* number of internal.EncodeBody calls made for the request
    sentBody,     \* what the reader of the latest attempt's request yields
    trace,        \* calls made while the chain of the latest attempt ran
    shortCircuit, \* the middleware that returned without calling next, or "none"
    waitStart,    \* time at which the latest waitForRetry was entered
    timeout,      \* cfg.timeout of the request (0: no WithRequestTimeout)
    deadline,     \* deadline of the ctx derived for the request (0: none)
    clientTimeout,\* c.timeout
    call,         \* a call of a function of the package: its name and arguments
    ret,          \* the value that call returned
    responses,    \* seq.responses of the MockTransport's sequence for the path
    index,        \* seq.index
    mockRequests, \* len(m.requests)
    readers,      \* the goroutines holding m.mu.RLock()
    rt,           \* position of each goroutine in MockTransport.RoundTrip
    loaded,       \* the value of seq.index a goroutine last read
    mockResp,     \* what RoundTrip hands to the goroutine
    clientHeaders,      \* c.headers
    defaultContentType, \* c.defaultContentType
    cfgHeaders,         \* cfg.headers of the request
    cfgContentType,     \* cfg.contentType of the request ("": no WithContentType)
    reqHeader,          \* req.Header of the latest attempt
    open          \* the attempts whose response body was handed over and not closed

limiterVars == <<rateLimiter, refillRate, tokens, maxTokens, lastRefill, mu>>
procVars == <<pc, ctx, timer, waitCtx, waitErr>>
histVars == <<debited, slept, checked, grantLog>>
reqVars == <<retryPolicy, result, attempt, response, lastErr, retResp, retErr,
             attempts, retryable, lastOutcome, waits>>

execVars == <<middlewares, body, bodyBytes, encodes, sentBody, trace, shortCircuit,
              waitStart, timeout, deadline, clientTimeout>>
fnVars == <<call, ret>>
mockVars == <<responses, index, mockRequests, readers, rt, loaded, mockResp>>
hdrVars == <<clientHeaders, defaultContentType, cfgHeaders, cfgContentType>>
sentVars == <<reqHeader, open>>

CtxStates == {"live", "canceled", "deadline"}

\* ------------------------------------------------------------ RateLimiter
Scale == refillRate.duration

\* NewRateLimiter(requests, duration) at time t
NewRateLimiter(requests, duration, t) ==
    [tokens |-> requests * duration,
     maxTokens |-> requests * duration,
     refillRate |-> [requests |-> requests, duration |-> duration],
     lastRefill |-> t]

\* refill() without the cap at maxTokens
refillNoCap(tok, last, t) == tok + (t - last) * refillRate.requests

\* refill() that tops the bucket up whatever time has elapsed
refillFull(tok, last, t) == maxTokens

\* refill() that moves lastRefill to now before it measures the elapsed time
refillAfterStamp(tok, last, t) == tok

\* refill(): the token count after adding elapsed * refillRate, capped
refill(tok, last, t) ==
    LET elapsed == t - last
        added == tok + elapsed * refillRate.requests
    IN IF added > maxTokens THEN maxTokens ELSE added

\* time.Duration(tokensNeeded / r.refillRate): truncated to whole ticks
waitDuration(tok) == (Scale - tok) \div refillRate.requests

\* r.mu.Lock()
Lock(p) ==
    /\ pc[p] = "wait_lock"
    /\ mu = 0
    /\ mu' = p
    /\ pc' = [pc EXCEPT ![p] = "wait_locked"]
    /\ UNCHANGED <<now, rateLimiter, refillRate, tokens, maxTokens, lastRefill,
                   ctx, timer, waitCtx, waitErr, histVars, reqVars, execVars, fnVars, mockVars, hdrVars, sentVars>>

\* a critical section that goes to sleep without r.mu.Unlock()
CheckSleepsLocked(p) ==
    /\ pc[p] = "wait_locked"
    /\ mu = p
    /\ LET t1 == refill(tokens, lastRefill, now) IN
        /\ lastRefill' = now
        /\ checked' = [checked EXCEPT ![p] = TRUE]
        /\ IF t1 >= Scale
           THEN /\ tokens' = t1 - Scale
                /\ pc' = [pc EXCEPT ![p] = "wait_ok"]
                /\ waitErr' = [waitErr EXCEPT ![p] = "nil"]
                /\ debited' = [debited EXCEPT ![p] = @ + 1]
                /\ grantLog' = [grantLog EXCEPT ![now] = @ + 1]
                /\ mu' = 0
                /\ UNCHANGED <<timer, slept>>
           ELSE /\ tokens' = t1
                /\ timer' = [timer EXCEPT ![p] = now + waitDuration(t1)]
                /\ pc' = [pc EXCEPT ![p] = "wait_select"]
                /\ slept' = [slept EXCEPT ![p] = TRUE]
                /\ mu' = p
                /\ UNCHANGED <<waitErr, debited, grantLog>>
    /\ UNCHANGED <<now, rateLimiter, refillRate, maxTokens, ctx, waitCtx, reqVars, execVars, fnVars, mockVars, hdrVars, sentVars>>

\* the critical section of Wait: refill, then debit and return nil, or
\* compute the wait, unlock and arm the timer
Check(p) ==
    /\ pc[p] = "wait_locked"
    /\ mu = p
    /\ LET t1 == refill(tokens, lastRefill, now) IN
        /\ lastRefill' = now
        /\ checked' = [checked EXCEPT ![p] = TRUE]
        /\ IF t1 >= Scale
           THEN /\ tokens' = t1 - Scale
                /\ pc' = [pc EXCEPT ![p] = "wait_ok"]
                /\ waitErr' = [waitErr EXCEPT ![p] = "nil"]
                /\ debited' = [debited EXCEPT ![p] = @ + 1]
                /\ grantLog' = [grantLog EXCEPT ![now] = @ + 1]
                /\ UNCHANGED <<timer, slept>>
           ELSE /\ tokens' = t1
                /\ timer' = [timer EXCEPT ![p] = now + waitDuration(t1)]
                /\ pc' = [pc EXCEPT ![p] = "wait_select"]
                /\ slept' = [slept EXCEPT ![p] = TRUE]
                /\ UNCHANGED <<waitErr, debited, grantLog>>
    /\ mu' = 0
    /\ UNCHANGED <<now, rateLimiter, refillRate, maxTokens, ctx, waitCtx, reqVars, execVars, fnVars, mockVars, hdrVars, sentVars>>

\* select: case <-timer.C
TimerFired(p) ==
    /\ pc[p] = "wait_select"
    /\ now >= timer[p]
    /\ pc' = [pc EXCEPT ![p] = "wait_lock"]
    /\ timer' = [timer EXCEPT ![p] = 0]
    /\ UNCHANGED <<now, limiterVars, ctx, waitCtx, waitErr, histVars, reqVars, execVars, fnVars, mockVars, hdrVars, sentVars>>

\* a cancelled Wait that has taken its token before sleeping and keeps it
CtxDoneDebits(p) ==
    /\ pc[p] = "wait_select"
    /\ ctx[p] # "live"
    /\ pc' = [pc EXCEPT ![p] = "wait_err"]
    /\ waitErr' = [waitErr EXCEPT ![p] = ctx[p]]
    /\ timer' = [timer EXCEPT ![p] = 0]
    /\ tokens' = tokens - Scale
    /\ debited' = [debited EXCEPT ![p] = @ + 1]
    /\ UNCHANGED <<now, rateLimiter, refillRate, maxTokens, lastRefill, mu, ctx,
                   waitCtx, slept, checked, grantLog, reqVars, execVars, fnVars, mockVars, hdrVars, sentVars>>

\* select: case <-ctx.Done(): return ctx.Err()
CtxDone(p) ==
    /\ pc[p] = "wait_select"
    /\ ctx[p] # "live"
    /\ pc' = [pc EXCEPT ![p] = "wait_err"]
    /\ waitErr' = [waitErr EXCEPT ![p] = ctx[p]]
    /\ timer' = [timer EXCEPT ![p] = 0]
    /\ UNCHANGED <<now, limiterVars, ctx, waitCtx, histVars, reqVars, execVars, fnVars, mockVars, hdrVars, sentVars>>

\* A Wait of another request that gets its token at once: Lock, refill, debit
\* and Unlock are one critical section, so they act on the limiter as one step.
\* Once the observed request is past its own Wait it never reads the limiter
\* again, so the other requests are followed only up to that point.
OtherWait ==
    /\ pc[Other] = "others"
    /\ \E p \in Requests : pc[p] \in {"start", "wait_lock", "wait_locked", "wait_select"}
    /\ debited[Other] < MaxOthers
    /\ mu = 0
    /\ refill(tokens, lastRefill, now) >= Scale
    /\ tokens' = refill(tokens, lastRefill, now) - Scale
    /\ lastRefill' = now
    /\ debited' = [debited EXCEPT ![Other] = @ + 1]
    /\ grantLog' = [grantLog EXCEPT ![now] = @ + 1]
    /\ UNCHANGED <<now, rateLimiter, refillRate, maxTokens, mu, procVars,
                   slept, checked, reqVars, execVars, fnVars, mockVars, hdrVars, sentVars>>

\* ------------------------------------------------------------ environment
Running(p) == pc[p] \notin {"unused", "others", "wait_ok", "wait_err", "done"}

\* the caller cancels the context
Cancel(p) ==
    /\ Running(p)
    /\ ctx[p] = "live"
    /\ ctx' = [ctx EXCEPT ![p] = "canceled"]
    /\ UNCHANGED <<now, limiterVars, pc, timer, waitCtx, waitErr, histVars, reqVars, execVars, fnVars, mockVars, hdrVars, sentVars>>

\* the context's deadline passes
Expire(p) ==
    /\ Running(p)
    /\ ctx[p] = "live"
    /\ ctx' = [ctx EXCEPT ![p] = "deadline"]
    /\ UNCHANGED <<now, limiterVars, pc, timer, waitCtx, waitErr, histVars, reqVars, execVars, fnVars, mockVars, hdrVars, sentVars>>

\* the deadline of the ctx derived with context.WithTimeout has passed
DeadlinePassed(p) == deadline[p] > 0 /\ now >= deadline[p]

\* ctx.Done() of the ctx the attempt loop runs under is closed
Done(p) == ctx[p] # "live" \/ DeadlinePassed(p)

\* Wall-clock time advances.  The transport and waitForRetry select on
\* ctx.Done(), so an attempt or a wait under a ctx whose deadline has come
\* returns before the clock moves on.
Tick ==
    /\ now < MaxTime
    /\ \E p \in Procs : pc[p] \notin {"unused", "others", "done", "wait_ok", "wait_err"}
    /\ \A p \in Procs : pc[p] \in {"attempt", "backoff"} => ~DeadlinePassed(p)
    /\ now' = now + 1
    /\ UNCHANGED <<limiterVars, procVars, histVars, reqVars, execVars, fnVars, mockVars, hdrVars, sentVars>>

\* Wall-clock time advances past the last instant the clock counts.  Wait and
\* refill read time only as differences (now - lastRefill, the timer's delay),
\* and a refill over a window or more fills the bucket whatever the excess, so
\* moving lastRefill and the timers one tick into the past, lastRefill no
\* further than one window, is one more tick of time.
TimePasses ==
    /\ now = MaxTime
    /\ \E p \in Procs : pc[p] \notin {"unused", "others", "done", "wait_ok", "wait_err"}
    /\ lastRefill' = Max(lastRefill - 1, now - refillRate.duration)
    /\ timer' = [p \in Procs |-> Max(timer[p] - 1, 0)]
    /\ UNCHANGED <<now, rateLimiter, refillRate, tokens, maxTokens, mu, pc, ctx,
                   waitCtx, waitErr, histVars, reqVars, execVars, fnVars, mockVars, hdrVars, sentVars>>

\* ------------------------------------------------------------ RetryPolicy
NilPolicy ==
    [nil |-> TRUE, MaxAttempts |-> 0, InitialDelay |-> 0, MaxDelay |-> 0,
     Multiplier |-> 0, Jitter |-> 0]

\* RetryPolicy values handed to WithRetry; delays in ticks, Jitter in percent
Policies ==
    { [nil |-> FALSE, MaxAttempts |-> m, InitialDelay |-> 1, MaxDelay |-> 2,
       Multiplier |-> 2, Jitter |-> j] : m \in 0 .. MaxPolicyAttempts, j \in {0, 100} }

RECURSIVE Pow(_, _)
Pow(b, e) == IF e <= 0 THEN 1 ELSE b * Pow(b, e - 1)

\* Backoff with math.Pow(p.Multiplier, float64(attempt))
BackoffExponentOff(p, att) ==
    LET a == IF att <= 0 THEN 1 ELSE att
        raw == p.InitialDelay * Pow(p.Multiplier, a)
        delay == IF raw > p.MaxDelay THEN p.MaxDelay ELSE raw
        lo == (delay * (100 - p.Jitter)) \div 100
        top == delay * (100 + p.Jitter)
        hi == IF top % 100 = 0 THEN (top \div 100) - 1 ELSE top \div 100
    IN IF p.Jitter > 0 /\ delay > 0 THEN lo .. hi ELSE {delay}

\* Backoff with the jitter range taken twice as wide: delay * p.Jitter * 2
BackoffWideJitter(p, att) ==
    LET a == IF att <= 0 THEN 1 ELSE att
        raw == p.InitialDelay * Pow(p.Multiplier, a - 1)
        delay == IF raw > p.MaxDelay THEN p.MaxDelay ELSE raw
        lo == (delay * (100 - 2 * p.Jitter)) \div 100
        top == delay * (100 + 2 * p.Jitter)
        hi == IF top % 100 = 0 THEN (top \div 100) - 1 ELSE top \div 100
    IN IF p.Jitter > 0 /\ delay > 0 THEN lo .. hi ELSE {delay}

\* Backoff(attempt): the durations rand.Float64() can produce.  The float64
\* delay lies in [delay - jitterRange, delay + jitterRange) and time.Duration()
\* truncates it to whole ticks; with a jitterRange of 0 it is delay itself.
Backoff(p, att) ==
    LET a == IF att <= 0 THEN 1 ELSE att
        raw == p.InitialDelay * Pow(p.Multiplier, a - 1)
        delay == IF raw > p.MaxDelay THEN p.MaxDelay ELSE raw
        lo == (delay * (100 - p.Jitter)) \div 100
        top == delay * (100 + p.Jitter)
        hi == IF top % 100 = 0 THEN (top \div 100) - 1 ELSE top \div 100
    IN IF p.Jitter > 0 /\ delay > 0 THEN lo .. hi ELSE {delay}

RetryableStatuses == {408, 429, 502, 503, 504}

\* ShouldRetry that also retries every 5xx
ShouldRetryServerErrors(statusCode) ==
    statusCode \in RetryableStatuses \/ statusCode >= 500

ShouldRetry(statusCode) == statusCode \in RetryableStatuses

DigitValue ==
    [c \in {"0", "1", "2", "3", "4", "5", "6", "7", "8", "9"} |->
        CASE c = "0" -> 0 [] c = "1" -> 1 [] c = "2" -> 2 [] c = "3" -> 3
          [] c = "4" -> 4 [] c = "5" -> 5 [] c = "6" -> 6 [] c = "7" -> 7
          [] c = "8" -> 8 [] c = "9" -> 9]

RECURSIVE DigitsValue(_, _)
DigitsValue(s, acc) ==
    IF s = <<>> THEN acc
    ELSE DigitsValue(Tail(s), acc * 10 + DigitValue[Head(s)])

\* strconv.Atoi: [ok, n]; an optional sign followed by at least one digit
Atoi(s) ==
    LET signed == s # <<>> /\ Head(s) \in {"+", "-"}
        digits == IF signed THEN Tail(s) ELSE s
        ok == digits # <<>> /\ \A i \in 1 .. Len(digits) : digits[i] \in DOMAIN DigitValue
        n == IF ok THEN DigitsValue(digits, 0) ELSE 0
    IN [ok |-> ok, n |-> IF signed /\ Head(s) = "-" THEN 0 - n ELSE n]

TicksPerSecond == 1

\* ParseRetryAfter(value)
ParseRetryAfter(value) ==
    IF value = <<>> THEN 0
    ELSE IF ~Atoi(value).ok THEN 0
    ELSE Atoi(value).n * TicksPerSecond

\* ------------------------------------------------------- Response / Error
ErrorKinds == {"Unknown", "Timeout", "Network", "HTTP", "Parse", "RateLimit"}

\* IsRetryable that looks at the status code whatever the kind
IsRetryableAnyKind(kind, statusCode) ==
    \/ kind \in {"Timeout", "Network"}
    \/ statusCode \in {408, 429, 502, 503, 504}

\* (*Error).IsRetryable()
IsRetryable(kind, statusCode) ==
    IF kind \in {"Timeout", "Network"} THEN TRUE
    ELSE IF kind = "HTTP" THEN statusCode \in {408, 429, 502, 503, 504}
    ELSE FALSE

NilResponse == [nil |-> TRUE, StatusCode |-> 0, Body |-> "empty", RetryAfter |-> <<>>]

NilError ==
    [nil |-> TRUE, classified |-> FALSE, Kind |-> "none", StatusCode |-> 0,
     Attempts |-> 0, Err |-> "none"]

\* &Error{Kind: kind, ...}
ClassifiedError(kind, statusCode, att, err) ==
    [nil |-> FALSE, classified |-> TRUE, Kind |-> kind, StatusCode |-> statusCode,
     Attempts |-> att, Err |-> err]

\* an error value that is not an *Error
PlainError(err) ==
    [nil |-> FALSE, classified |-> FALSE, Kind |-> "none", StatusCode |-> 0,
     Attempts |-> 0, Err |-> err]

\* c.wrapError(err, method, url)
wrapError(cause) ==
    ClassifiedError(IF cause = "deadline" THEN "Timeout"
                    ELSE IF cause = "canceled" THEN "Network"
                    ELSE "Unknown", 0, 0, cause)

NoOutcome ==
    [kind |-> "none", cause |-> "none", StatusCode |-> 0, Body |-> "empty",
     RetryAfter |-> <<>>, readOK |-> TRUE, paired |-> FALSE]

\* what one invocation of the middleware chain can hand back
Outcomes ==
    { [kind |-> "badrequest", cause |-> "none", StatusCode |-> 0, Body |-> "empty",
       RetryAfter |-> <<>>, readOK |-> TRUE, paired |-> FALSE] }
    \cup
    { [kind |-> "error", cause |-> c, StatusCode |-> 0, Body |-> "empty",
       RetryAfter |-> <<>>, readOK |-> TRUE, paired |-> FALSE] :
          c \in {"deadline", "canceled", "other"} }
    \cup
    \* a middleware returns a response and an error together
    { [kind |-> "error", cause |-> "other", StatusCode |-> 0, Body |-> "empty",
       RetryAfter |-> <<>>, readOK |-> TRUE, paired |-> TRUE] }
    \cup
    { [kind |-> "response", cause |-> "none", StatusCode |-> 200, Body |-> b,
       RetryAfter |-> <<>>, readOK |-> TRUE, paired |-> FALSE] : b \in {"empty", "json", "garbage"} }
    \cup
    { [kind |-> "response", cause |-> "none", StatusCode |-> st, Body |-> "empty",
       RetryAfter |-> <<>>, readOK |-> ok, paired |-> FALSE] : st \in {200, 301, 400, 500}, ok \in BOOLEAN }
    \cup
    { [kind |-> "response", cause |-> "none", StatusCode |-> 503, Body |-> "empty",
       RetryAfter |-> ra, readOK |-> TRUE, paired |-> FALSE] : ra \in {<<>>, <<"3">>, <<"-", "1">>, <<"x">>} }

\* ------------------------------------------------------------ request body
MaxMiddlewares == 2      \* largest number of middlewares registered on a client

\* http.Header, for the keys the model follows
HeaderKeys == {"Accept", "Content-Type"}

\* make(http.Header)
NoHeader == [k \in HeaderKeys |-> <<>>]

\* h.Set(key, value)
HeaderSet(h, key, value) == [h EXCEPT ![key] = <<value>>]

\* for key, values := range src { for _, value := range values { h.Add(key, value) } }
HeaderAddAll(h, src) == [k \in HeaderKeys |-> h[k] \o src[k]]

\* for key, values := range src { for _, value := range values { h.Set(key, value) } }
HeaderSetAll(h, src) ==
    [k \in HeaderKeys |-> IF src[k] = <<>> THEN h[k] ELSE <<src[k][Len(src[k])]>>]

\* a resolution that prefers the client default to the encoder's content type
ResolveContentTypeDefaultFirst(h, override, contentType, hasBody, default) ==
    IF override # "" THEN HeaderSet(h, "Content-Type", override)
    ELSE IF hasBody THEN HeaderSet(h, "Content-Type", default)
    ELSE IF contentType # "" THEN HeaderSet(h, "Content-Type", contentType)
    ELSE h

\* cfg.contentType, else the encoder's contentType, else, with a body, the
\* client's default
ResolveContentType(h, override, contentType, hasBody, default) ==
    IF override # "" THEN HeaderSet(h, "Content-Type", override)
    ELSE IF contentType # "" THEN HeaderSet(h, "Content-Type", contentType)
    ELSE IF hasBody THEN HeaderSet(h, "Content-Type", default)
    ELSE h

NoBytes == [nil |-> TRUE, data |-> <<>>]

\* values of the body argument: nil, a []byte, an io.Reader already read up to
\* pos, a value json.Marshal encodes (an array of digits) and one it rejects
Bodies ==
    { [kind |-> "nil", data |-> <<>>, pos |-> 0],
      [kind |-> "bytes", data |-> <<"a", "b">>, pos |-> 0],
      [kind |-> "reader", data |-> <<"a", "b">>, pos |-> 1],
      [kind |-> "json", data |-> <<1, 2>>, pos |-> 0],
      [kind |-> "unencodable", data |-> <<>>, pos |-> 0] }

\* bytes.NewReader(b)
NewReader(b) == [data |-> b, pos |-> 0]

\* io.ReadAll(r): what is left of the reader
ReadAll(r) == SubSeq(r.data, r.pos + 1, Len(r.data))

DigitChar(n) == CHOOSE c \in DOMAIN DigitValue : DigitValue[c] = n

RECURSIVE MarshalItems(_)
MarshalItems(v) ==
    IF v = <<>> THEN <<>>
    ELSE IF Len(v) = 1 THEN <<DigitChar(Head(v))>>
    ELSE <<DigitChar(Head(v)), ",">> \o MarshalItems(Tail(v))

\* json.Marshal of an array of digits
Marshal(v) == <<"[">> \o MarshalItems(v) \o <<"]">>

\* internal.EncodeBody(body): [err, nil, reader]
EncodeBody(b) ==
    IF b.kind = "nil" THEN [err |-> FALSE, nil |-> TRUE, reader |-> NewReader(<<>>)]
    ELSE IF b.kind = "bytes" THEN [err |-> FALSE, nil |-> FALSE, reader |-> NewReader(b.data)]
    ELSE IF b.kind = "reader"
    THEN [err |-> FALSE, nil |-> FALSE, reader |-> [data |-> b.data, pos |-> b.pos]]
    ELSE IF b.kind = "json"
    THEN [err |-> FALSE, nil |-> FALSE, reader |-> NewReader(Marshal(b.data))]
    ELSE [err |-> TRUE, nil |-> TRUE, reader |-> NewReader(<<>>)]

\* the content type internal.EncodeBody returns with the reader
EncodedContentType(b) == IF b.kind = "json" THEN "application/json" ELSE ""

\* bodyBytes as left by the lines after EncodeBody: nil without a reader
EncodedBytes(enc) ==
    IF enc.nil THEN NoBytes ELSE [nil |-> FALSE, data |-> ReadAll(enc.reader)]

\* one reader over bodyBytes made before the loop and shared by the attempts
AttemptBodyShared(p) ==
    IF bodyBytes[p].nil THEN NoBytes
    ELSE IF attempts[p] = 0 THEN [nil |-> FALSE, data |-> ReadAll(NewReader(bodyBytes[p].data))]
    ELSE [nil |-> FALSE, data |-> <<>>]

\* reqBody of one attempt, read to its end by whoever sends the request
AttemptBody(p) ==
    IF bodyBytes[p].nil THEN NoBytes
    ELSE [nil |-> FALSE, data |-> ReadAll(NewReader(bodyBytes[p].data))]

\* ------------------------------------------------------- middleware chain
MiddlewareNames == <<"A", "B", "C", "D">>

\* c.middlewares after WithMiddleware was applied n times
Chains == { SubSeq(MiddlewareNames, 1, n) : n \in 0 .. MaxMiddlewares }

\* the innermost RoundTripFunc: c.httpClient.Do
Transport == [mw |-> "transport"]

\* the wrapping loop run from the first middleware to the last
RECURSIVE WrapUp(_, _, _)
WrapUp(mws, i, transport) ==
    IF i > Len(mws) THEN transport
    ELSE WrapUp(mws, i + 1, [mw |-> mws[i], next |-> transport])

BuildChainForward(mws) == WrapUp(mws, 1, Transport)

\* the wrapping loop: for i := len(c.middlewares) - 1; i >= 0; i--
RECURSIVE WrapFrom(_, _, _)
WrapFrom(mws, i, transport) ==
    IF i < 1 THEN transport
    ELSE WrapFrom(mws, i - 1, [mw |-> mws[i], next |-> transport])

BuildChain(mws) == WrapFrom(mws, Len(mws), Transport)

\* a chain that calls next whatever the middleware returned
RECURSIVE RunChainThrough(_, _)
RunChainThrough(t, sc) ==
    IF t.mw = "transport" THEN << <<"transport", "call">> >>
    ELSE << <<t.mw, "before">> >> \o RunChainThrough(t.next, sc) \o << <<t.mw, "after">> >>

\* transport(req): the calls made, when middleware sc returns without calling
\* next and every other one calls it once
RECURSIVE RunChain(_, _)
RunChain(t, sc) ==
    IF t.mw = "transport" THEN << <<"transport", "call">> >>
    ELSE << <<t.mw, "before">> >>
         \o (IF t.mw = sc THEN <<>> ELSE RunChain(t.next, sc))
         \o << <<t.mw, "after">> >>

\* a middleware that may return a response together with an error
Pairing == "P"

\* the middlewares that may answer by themselves in an attempt
ShortCircuits == {"none"} \cup { middlewares[i] : i \in 1 .. Len(middlewares) }

\* ------------------------------------------------- Client.doWithOptions
\* MaxAttempts read as the number of retries after the first attempt
maxAttemptsAsRetries == IF retryPolicy.nil THEN 1 ELSE retryPolicy.MaxAttempts + 1

maxAttempts == IF retryPolicy.nil THEN 1 ELSE retryPolicy.MaxAttempts

\* an error branch taken for server errors only
IsErrorStatusServerOnly(statusCode) == statusCode >= 500

\* resp.StatusCode >= 400
IsErrorStatus(statusCode) == statusCode >= 400

\* a retry test that leaves out attempt < maxAttempts
AttemptsRemainAlways(att) == ~retryPolicy.nil

\* attempts remain under a configured policy
AttemptsRemain(att) == ~retryPolicy.nil /\ att < maxAttempts

\* a success branch that drops the error of response.JSON
DecodeIgnoresError(res, respBody) == NilError

\* the success branch: response.JSON(result) when a result target was given
\* and the body is not empty; a "garbage" body is one json.Unmarshal rejects
Decode(res, respBody) ==
    IF res /\ respBody # "empty"
    THEN IF respBody = "garbage" THEN PlainError("json") ELSE NilError
    ELSE NilError

\* a retry branch that caps the Retry-After delay at the policy's MaxDelay
RetryDelaysClamped(att, retryAfter) ==
    IF retryAfter # <<>> /\ ParseRetryAfter(retryAfter) > 0
    THEN {Min(ParseRetryAfter(retryAfter), retryPolicy.MaxDelay)}
    ELSE Backoff(retryPolicy, att)

\* the delay of the retry branch: Retry-After if it parses to > 0, else Backoff
RetryDelays(att, retryAfter) ==
    IF retryAfter # <<>> /\ ParseRetryAfter(retryAfter) > 0
    THEN {ParseRetryAfter(retryAfter)}
    ELSE Backoff(retryPolicy, att)

\* req.Header as the loop body builds it: c.headers added, cfg.headers set,
\* then the Content-Type resolved
RequestHeader(p) ==
    ResolveContentType(HeaderSetAll(HeaderAddAll(NoHeader, clientHeaders), cfgHeaders[p]),
                       cfgContentType[p], EncodedContentType(body[p]),
                       body[p].kind # "nil", defaultContentType)

\* a loop body that builds the request's header in the client's own map
ClientHeadersAliased(p) == RequestHeader(p)

\* c.headers after the loop body has built req.Header: the loop ranges over
\* c.headers and writes to req.Header only
ClientHeadersAfter(p) == clientHeaders

\* a ctx derived anew with cfg.timeout at the top of every iteration
DeadlinePerAttempt(p, att) ==
    IF timeout[p] > 0 THEN now + timeout[p] ELSE deadline[p]

\* The deadline of the ctx iteration att of the loop runs under: derived with
\* context.WithTimeout(ctx, cfg.timeout) before the loop, kept afterwards.
Deadline(p, att) ==
    IF att = 1
    THEN IF timeout[p] > 0 THEN now + timeout[p] ELSE deadline[p]
    ELSE deadline[p]

Goto(p, newpc, att, rr, re) ==
    /\ pc' = [pc EXCEPT ![p] = newpc]
    /\ attempt' = [attempt EXCEPT ![p] = att]
    /\ retResp' = [retResp EXCEPT ![p] = rr]
    /\ retErr' = [retErr EXCEPT ![p] = re]

Return(p, rr, re) == Goto(p, "done", attempt[p], rr, re)

\* the loop condition written attempt < maxAttempts
LoopOffByOne(p, att) ==
    IF att < maxAttempts
    THEN Goto(p, "attempt", att, retResp[p], retErr[p])
    ELSE Goto(p, "done", att, response[p], lastErr[p])

\* the loop condition attempt <= maxAttempts, and the return after the loop
Loop(p, att) ==
    IF att <= maxAttempts
    THEN Goto(p, "attempt", att, retResp[p], retErr[p])
    ELSE Goto(p, "done", att, response[p], lastErr[p])

\* c.waitForRetry(ctx, delay); continue
StartWait(p, delay) ==
    /\ Goto(p, "backoff", attempt[p], retResp[p], retErr[p])
    /\ timer' = [timer EXCEPT ![p] = now + delay]
    /\ waitStart' = [waitStart EXCEPT ![p] = now]
    /\ waits' = [waits EXCEPT ![p] = @ + 1]

\* an entry that turns to the rate limiter before it looks at the encoding
BeginLimitsFirst(p) ==
    /\ pc[p] = "start"
    /\ \E res \in BOOLEAN :
        LET enc == EncodeBody(body[p]) IN
        /\ result' = [result EXCEPT ![p] = res]
        /\ encodes' = [encodes EXCEPT ![p] = @ + 1]
        /\ IF rateLimiter
           THEN /\ Goto(p, "wait_lock", attempt[p], retResp[p], retErr[p])
                /\ waitCtx' = [waitCtx EXCEPT ![p] = ctx[p]]
                /\ bodyBytes' = [bodyBytes EXCEPT ![p] = EncodedBytes(enc)]
                /\ UNCHANGED deadline
           ELSE IF enc.err
           THEN /\ Return(p, NilResponse, PlainError("encode"))
                /\ UNCHANGED <<waitCtx, bodyBytes, deadline>>
           ELSE /\ bodyBytes' = [bodyBytes EXCEPT ![p] = EncodedBytes(enc)]
                /\ Loop(p, 1)
                /\ deadline' = [deadline EXCEPT ![p] = Deadline(p, 1)]
                /\ UNCHANGED waitCtx
    /\ UNCHANGED <<now, limiterVars, ctx, timer, waitErr, histVars, retryPolicy,
                   response, lastErr, attempts, retryable, lastOutcome, waits,
                   middlewares, body, sentBody, trace, shortCircuit, waitStart,
                   timeout, clientTimeout, fnVars, mockVars, hdrVars, sentVars>>

\* entry up to the rate limiter: options, URL, body encoding
Begin(p) ==
    /\ pc[p] = "start"
    /\ \E res \in BOOLEAN :
        LET enc == EncodeBody(body[p]) IN
        /\ result' = [result EXCEPT ![p] = res]
        /\ encodes' = [encodes EXCEPT ![p] = @ + 1]
        /\ IF enc.err
           THEN /\ Return(p, NilResponse, PlainError("encode"))
                /\ UNCHANGED <<waitCtx, bodyBytes, deadline>>
           ELSE /\ bodyBytes' = [bodyBytes EXCEPT ![p] = EncodedBytes(enc)]
                /\ IF rateLimiter
                   THEN /\ Goto(p, "wait_lock", attempt[p], retResp[p], retErr[p])
                        /\ waitCtx' = [waitCtx EXCEPT ![p] = ctx[p]]
                        /\ UNCHANGED deadline
                   ELSE /\ Loop(p, 1)
                        /\ deadline' = [deadline EXCEPT ![p] = Deadline(p, 1)]
                        /\ UNCHANGED waitCtx
    /\ UNCHANGED <<now, limiterVars, ctx, timer, waitErr, histVars, retryPolicy,
                   response, lastErr, attempts, retryable, lastOutcome, waits,
                   middlewares, body, sentBody, trace, shortCircuit, waitStart,
                   timeout, clientTimeout, fnVars, mockVars, hdrVars, sentVars>>

\* a rate-limit step that drops the error of Wait
AfterWaitIgnoresError(p) ==
    /\ encodes[p] >= 1      \* Wait was called by doWithOptions, not directly
    /\ pc[p] \in {"wait_ok", "wait_err"}
    /\ Loop(p, 1)
    /\ deadline' = [deadline EXCEPT ![p] = Deadline(p, 1)]
    /\ UNCHANGED <<now, limiterVars, ctx, timer, waitCtx, waitErr, histVars,
                   retryPolicy, result, response, lastErr, attempts, retryable,
                   lastOutcome, waits, middlewares, body, bodyBytes, encodes, sentBody, trace,
                   shortCircuit, waitStart, timeout, clientTimeout, fnVars, mockVars, hdrVars, sentVars>>

\* the result of c.rateLimiter.Wait(ctx)
AfterWait(p) ==
    /\ encodes[p] >= 1      \* Wait was called by doWithOptions, not directly
    /\ pc[p] \in {"wait_ok", "wait_err"}
    /\ IF pc[p] = "wait_err"
       THEN /\ Return(p, NilResponse, ClassifiedError("RateLimit", 0, 0, waitErr[p]))
            /\ UNCHANGED deadline
       ELSE /\ Loop(p, 1)
            /\ deadline' = [deadline EXCEPT ![p] = Deadline(p, 1)]
    /\ UNCHANGED <<now, limiterVars, ctx, timer, waitCtx, waitErr, histVars,
                   retryPolicy, result, response, lastErr, attempts, retryable, lastOutcome, waits,
                   middlewares, body, bodyBytes, encodes, sentBody, trace,
                   shortCircuit, waitStart, timeout, clientTimeout, fnVars, mockVars, hdrVars, sentVars>>

\* one iteration of the attempt loop, up to its return or its wait
Attempt(p) ==
    /\ pc[p] = "attempt"
    /\ \E o \in Outcomes, sc \in ShortCircuits :
        LET resp == [nil |-> FALSE, StatusCode |-> o.StatusCode, Body |-> o.Body,
                     RetryAfter |-> o.RetryAfter]
            httpErr == ClassifiedError("HTTP", o.StatusCode, attempt[p], "none")
        IN
        /\ o.paired => \E i \in 1 .. Len(middlewares) : middlewares[i] = Pairing
        /\ lastOutcome' = [lastOutcome EXCEPT ![p] = o]
        /\ shortCircuit' = [shortCircuit EXCEPT ![p] = sc]
        /\ IF o.kind = "badrequest"
           THEN /\ sc = "none"
                /\ UNCHANGED <<sentBody, trace, reqHeader, clientHeaders>>
           ELSE /\ sentBody' = [sentBody EXCEPT ![p] = AttemptBody(p)]
                /\ reqHeader' = [reqHeader EXCEPT ![p] = RequestHeader(p)]
                /\ clientHeaders' = ClientHeadersAfter(p)
                /\ trace' = [trace EXCEPT ![p] = RunChain(BuildChain(middlewares), sc)]
        \* the error branch leaves resp alone; the other branches run
        \* io.ReadAll(resp.Body) and resp.Body.Close()
        /\ open' = [open EXCEPT ![p] = IF o.kind = "error" /\ o.paired
                                       THEN @ \cup {attempt[p]} ELSE @]
        /\ IF o.kind = "badrequest"
           THEN \* http.NewRequestWithContext fails: the method is invalid
                /\ attempt[p] = 1
                /\ Return(p, NilResponse, PlainError("request"))
                /\ UNCHANGED <<timer, waitStart, response, lastErr, attempts, retryable, waits>>
           ELSE IF o.kind = "error"
           THEN \* the chain returns an error
                /\ attempts' = [attempts EXCEPT ![p] = @ + 1]
                /\ lastErr' = [lastErr EXCEPT ![p] = wrapError(o.cause)]
                /\ UNCHANGED <<response, retryable>>
                /\ IF AttemptsRemain(attempt[p])
                   THEN \E d \in Backoff(retryPolicy, attempt[p]) : StartWait(p, d)
                   ELSE /\ Return(p, NilResponse, wrapError(o.cause))
                        /\ UNCHANGED <<timer, waitStart, waits>>
           ELSE IF ~o.readOK
           THEN \* io.ReadAll(resp.Body) fails
                /\ attempts' = [attempts EXCEPT ![p] = @ + 1]
                /\ Return(p, NilResponse, PlainError("read"))
                /\ UNCHANGED <<timer, waitStart, response, lastErr, retryable, waits>>
           ELSE IF IsErrorStatus(o.StatusCode)
           THEN /\ attempts' = [attempts EXCEPT ![p] = @ + 1]
                /\ response' = [response EXCEPT ![p] = resp]
                /\ lastErr' = [lastErr EXCEPT ![p] = httpErr]
                /\ retryable' = [retryable EXCEPT ![p] =
                                   IF o.StatusCode \in {408, 429, 502, 503, 504}
                                   THEN @ + 1 ELSE @]
                /\ IF AttemptsRemain(attempt[p]) /\ ShouldRetry(o.StatusCode)
                   THEN \E d \in RetryDelays(attempt[p], o.RetryAfter) : StartWait(p, d)
                   ELSE /\ Return(p, resp, httpErr)
                        /\ UNCHANGED <<timer, waitStart, waits>>
           ELSE \* success
                /\ attempts' = [attempts EXCEPT ![p] = @ + 1]
                /\ response' = [response EXCEPT ![p] = resp]
                /\ Return(p, resp, Decode(result[p], o.Body))
                /\ UNCHANGED <<timer, waitStart, lastErr, retryable, waits>>
    /\ UNCHANGED <<now, limiterVars, ctx, waitCtx, waitErr, histVars, retryPolicy, result,
                   middlewares, body, bodyBytes, encodes, timeout, deadline, clientTimeout,
                   fnVars, mockVars, defaultContentType, cfgHeaders, cfgContentType>>

\* a wait that hands over to the next attempt before its timer has fired
RetryTimerFiredEarly(p) ==
    /\ pc[p] = "backoff"
    /\ Loop(p, attempt[p] + 1)
    /\ deadline' = [deadline EXCEPT ![p] = Deadline(p, attempt[p] + 1)]
    /\ timer' = [timer EXCEPT ![p] = 0]
    /\ waitStart' = [waitStart EXCEPT ![p] = 0]
    /\ UNCHANGED <<now, limiterVars, ctx, waitCtx, waitErr, histVars,
                   retryPolicy, result, response, lastErr, attempts, retryable, lastOutcome, waits,
                   middlewares, body, bodyBytes, encodes, sentBody, trace, shortCircuit,
                   timeout, clientTimeout, fnVars, mockVars, hdrVars, sentVars>>

\* waitForRetry: case <-timer.C
RetryTimerFired(p) ==
    /\ pc[p] = "backoff"
    /\ now >= timer[p]
    /\ Loop(p, attempt[p] + 1)
    /\ deadline' = [deadline EXCEPT ![p] = Deadline(p, attempt[p] + 1)]
    /\ timer' = [timer EXCEPT ![p] = 0]
    /\ waitStart' = [waitStart EXCEPT ![p] = 0]
    /\ UNCHANGED <<now, limiterVars, ctx, waitCtx, waitErr, histVars,
                   retryPolicy, result, response, lastErr, attempts, retryable, lastOutcome, waits,
                   middlewares, body, bodyBytes, encodes, sentBody, trace, shortCircuit,
                   timeout, clientTimeout, fnVars, mockVars, hdrVars, sentVars>>

\* waitForRetry: case <-ctx.Done()
RetryCtxDone(p) ==
    /\ pc[p] = "backoff"
    /\ Done(p)
    /\ Loop(p, attempt[p] + 1)
    /\ deadline' = [deadline EXCEPT ![p] = Deadline(p, attempt[p] + 1)]
    /\ timer' = [timer EXCEPT ![p] = 0]
    /\ waitStart' = [waitStart EXCEPT ![p] = 0]
    /\ UNCHANGED <<now, limiterVars, ctx, waitCtx, waitErr, histVars,
                   retryPolicy, result, response, lastErr, attempts, retryable, lastOutcome, waits,
                   middlewares, body, bodyBytes, encodes, sentBody, trace, shortCircuit,
                   timeout, clientTimeout, fnVars, mockVars, hdrVars, sentVars>>

\* --------------------------------------------- limiter used by goroutines
InitLimiter(requests, duration) ==
    LET r == NewRateLimiter(requests, duration, 0) IN
    /\ rateLimiter = TRUE
    /\ refillRate = r.refillRate
    /\ tokens = r.tokens
    /\ maxTokens = r.maxTokens
    /\ lastRefill = r.lastRefill
    /\ mu = 0

InitHist ==
    /\ debited = [p \in Procs |-> 0]
    /\ slept = [p \in Procs |-> FALSE]
    /\ checked = [p \in Procs |-> FALSE]
    /\ grantLog = [t \in 0 .. MaxTime |-> 0]

InitReq ==
    /\ result = [p \in Procs |-> FALSE]
    /\ attempt = [p \in Procs |-> 0]
    /\ response = [p \in Procs |-> NilResponse]
    /\ lastErr = [p \in Procs |-> NilError]
    /\ retResp = [p \in Procs |-> NilResponse]
    /\ retErr = [p \in Procs |-> NilError]
    /\ attempts = [p \in Procs |-> 0]
    /\ retryable = [p \in Procs |-> 0]
    /\ lastOutcome = [p \in Procs |-> NoOutcome]
    /\ waits = [p \in Procs |-> 0]
    /\ bodyBytes = [p \in Procs |-> NoBytes]
    /\ encodes = [p \in Procs |-> 0]
    /\ sentBody = [p \in Procs |-> NoBytes]
    /\ trace = [p \in Procs |-> <<>>]
    /\ shortCircuit = [p \in Procs |-> "none"]
    /\ waitStart = [p \in Procs |-> 0]
    /\ deadline = [p \in Procs |-> 0]
    /\ reqHeader = [p \in Procs |-> NoHeader]
    /\ open = [p \in Procs |-> {}]

NoCall ==
    [fn |-> "none", value |-> <<>>, policy |-> NilPolicy, attempt |-> 0,
     statusCode |-> 0, kind |-> "none"]

NoRet == [done |-> FALSE, duration |-> 0, bool |-> FALSE]

\* no call of a function of the package is followed
\* NewMockTransport(), and no goroutine calling RoundTrip
InitNoMock ==
    /\ responses = <<>>
    /\ index = 0
    /\ mockRequests = 0
    /\ readers = {}
    /\ rt = [p \in Procs |-> "unused"]
    /\ loaded = [p \in Procs |-> 0]
    /\ mockResp = [p \in Procs |-> [kind |-> "none", id |-> 0]]

InitFn ==
    /\ call = NoCall
    /\ ret = NoRet
    /\ InitNoMock

NilBody == CHOOSE b \in Bodies : b.kind = "nil"

\* New: timeout: 30 * time.Second
DefaultTimeout == 30 * TicksPerSecond

\* a client built without WithTimeout, and requests without WithRequestTimeout
InitNoTimeout ==
    /\ timeout = [p \in Procs |-> 0]
    /\ clientTimeout = DefaultTimeout

\* the headers New sets, and requests without header or content-type options
InitNoHeaders ==
    /\ clientHeaders = HeaderSet(NoHeader, "Accept", "application/json")
    /\ defaultContentType = "application/json"
    /\ cfgHeaders = [p \in Procs |-> NoHeader]
    /\ cfgContentType = [p \in Procs |-> ""]

\* a client without middlewares on which no request is made
InitNoRequest ==
    /\ middlewares = <<>>
    /\ body = [p \in Procs |-> NilBody]
    /\ InitNoTimeout
    /\ InitNoHeaders

\* every caller has just entered Wait, with a context in any state
InitRL ==
    /\ now = 0
    /\ \E requests \in 1 .. MaxPermits, duration \in 1 .. MaxWindow :
          InitLimiter(requests, duration)
    /\ ctx \in [Procs -> CtxStates]
    /\ \A p \in Procs \ Callers : ctx[p] = "live"
    /\ waitCtx = [p \in Procs |-> IF p \in Callers THEN ctx[p] ELSE "none"]
    /\ pc = [p \in Procs |-> IF p \in Callers THEN "wait_lock" ELSE "unused"]
    /\ timer = [p \in Procs |-> 0]
    /\ waitErr = [p \in Procs |-> "none"]
    /\ InitHist
    /\ retryPolicy = NilPolicy
    /\ InitReq
    /\ InitNoRequest
    /\ InitFn

vars == <<now, limiterVars, procVars, histVars, reqVars, execVars, fnVars, mockVars, hdrVars, sentVars>>

NextRL ==
    \/ \E p \in Procs : Lock(p)
    \/ \E p \in Procs : Check(p)
    \/ \E p \in Procs : TimerFired(p)
    \/ \E p \in Procs : CtxDone(p)
    \/ \E p \in Procs : Cancel(p)
    \/ \E p \in Procs : Expire(p)
    \/ Tick

SpecRL == InitRL /\ [][NextRL]_vars

\* LiveCallers goroutines have just entered Wait and the clock never stops
InitLive ==
    /\ now = 0
    /\ \E requests \in 1 .. MaxPermits, duration \in 1 .. MaxWindow :
          InitLimiter(requests, duration)
    /\ ctx \in [Procs -> CtxStates]
    /\ \A p \in Procs \ (1 .. LiveCallers) : ctx[p] = "live"
    /\ waitCtx = [p \in Procs |-> IF p \in 1 .. LiveCallers THEN ctx[p] ELSE "none"]
    /\ pc = [p \in Procs |-> IF p \in 1 .. LiveCallers THEN "wait_lock" ELSE "unused"]
    /\ timer = [p \in Procs |-> 0]
    /\ waitErr = [p \in Procs |-> "none"]
    /\ InitHist
    /\ retryPolicy = NilPolicy
    /\ InitReq
    /\ InitNoRequest
    /\ InitFn

NextLive ==
    \/ \E p \in Procs : Lock(p)
    \/ \E p \in Procs : Check(p)
    \/ \E p \in Procs : TimerFired(p)
    \/ \E p \in Procs : CtxDone(p)
    \/ \E p \in Procs : Cancel(p)
    \/ \E p \in Procs : Expire(p)
    \/ Tick
    \/ TimePasses

\* The scheduler runs every goroutine that can take a step (Lock, the critical
\* section, a fired timer) and time does not stop; nothing forces a caller to
\* cancel, and a select with both cases ready may take either.
FairLive ==
    /\ \A p \in Callers : WF_vars(Lock(p))
    /\ \A p \in Callers : WF_vars(Check(p))
    /\ \A p \in Callers : WF_vars(TimerFired(p))
    /\ WF_vars(Tick)
    /\ WF_vars(TimePasses)

SpecLive == InitLive /\ [][NextLive]_vars /\ FairLive

\* ------------------------------------------------ requests on one client
\* a client built by New with any of the options, and its callers about to
\* issue one request each
Init ==
    /\ now = 0
    /\ \/ \E requests \in 1 .. MaxPermits, duration \in 1 .. MaxWindow :
             InitLimiter(requests, duration)
       \/ /\ rateLimiter = FALSE
          /\ refillRate = [requests |-> 1, duration |-> 1]
          /\ tokens = 0
          /\ maxTokens = 0
          /\ lastRefill = 0
          /\ mu = 0
    /\ retryPolicy \in Policies \cup {NilPolicy}
    /\ ctx \in [Procs -> CtxStates]
    /\ \A p \in Procs \ Requests : ctx[p] = "live"
    /\ pc = [p \in Procs |-> IF p \in Requests THEN "start"
                             ELSE IF p = Other /\ rateLimiter THEN "others"
                             ELSE "unused"]
    /\ waitCtx = [p \in Procs |-> "none"]
    /\ timer = [p \in Procs |-> 0]
    /\ waitErr = [p \in Procs |-> "none"]
    /\ InitHist
    /\ InitReq
    /\ middlewares = <<>>
    /\ InitNoTimeout
    /\ InitNoHeaders
    /\ body \in [Procs -> {b \in Bodies : b.kind \in {"nil", "unencodable"}}]
    /\ \A p \in Procs \ Requests : body[p] = NilBody
    /\ InitFn

Next ==
    \/ \E p \in Procs : Begin(p)
    \/ \E p \in Procs : Lock(p)
    \/ \E p \in Procs : Check(p)
    \/ \E p \in Procs : TimerFired(p)
    \/ \E p \in Procs : CtxDone(p)
    \/ \E p \in Procs : AfterWait(p)
    \/ \E p \in Procs : Attempt(p)
    \/ \E p \in Procs : RetryTimerFired(p)
    \/ \E p \in Procs : RetryCtxDone(p)
    \/ \E p \in Procs : Cancel(p)
    \/ \E p \in Procs : Expire(p)
    \/ OtherWait
    \/ Tick

Spec == Init /\ [][Next]_vars

\* --------------------------------- one request on a client without limiter
\* a client built by New with WithRetry and WithMiddleware in any combination,
\* and a caller about to issue a request with any body and a live context
InitExec ==
    /\ now = 0
    /\ rateLimiter = FALSE
    /\ refillRate = [requests |-> 1, duration |-> 1]
    /\ tokens = 0
    /\ maxTokens = 0
    /\ lastRefill = 0
    /\ mu = 0
    /\ retryPolicy \in Policies \cup {NilPolicy}
    /\ ctx = [p \in Procs |-> "live"]
    /\ pc = [p \in Procs |-> IF p \in Requests THEN "start" ELSE "unused"]
    /\ waitCtx = [p \in Procs |-> "none"]
    /\ timer = [p \in Procs |-> 0]
    /\ waitErr = [p \in Procs |-> "none"]
    /\ InitHist
    /\ InitReq
    /\ middlewares \in Chains
    /\ InitNoTimeout
    /\ InitNoHeaders
    /\ body \in [Procs -> Bodies]
    /\ \A p \in Procs \ Requests : body[p] = NilBody
    /\ InitFn

NextExec ==
    \/ \E p \in Procs : Begin(p)
    \/ \E p \in Procs : Attempt(p)
    \/ \E p \in Procs : RetryTimerFired(p)
    \/ \E p \in Procs : RetryCtxDone(p)
    \/ \E p \in Procs : Cancel(p)
    \/ \E p \in Procs : Expire(p)
    \/ Tick

SpecExec == InitExec /\ [][NextExec]_vars

\* ------------------------------------------------- requests with timeouts
\* a client built by New with WithRetry and WithTimeout in any combination,
\* and a caller about to issue a bodiless request with or without
\* WithRequestTimeout, under a live context
InitDeadline ==
    /\ now = 0
    /\ rateLimiter = FALSE
    /\ refillRate = [requests |-> 1, duration |-> 1]
    /\ tokens = 0
    /\ maxTokens = 0
    /\ lastRefill = 0
    /\ mu = 0
    /\ retryPolicy \in Policies \cup {NilPolicy}
    /\ ctx = [p \in Procs |-> "live"]
    /\ pc = [p \in Procs |-> IF p \in Requests THEN "start" ELSE "unused"]
    /\ waitCtx = [p \in Procs |-> "none"]
    /\ timer = [p \in Procs |-> 0]
    /\ waitErr = [p \in Procs |-> "none"]
    /\ InitHist
    /\ InitReq
    /\ middlewares = <<>>
    /\ body = [p \in Procs |-> NilBody]
    /\ timeout \in [Procs -> 0 .. MaxTimeout]
    /\ \A p \in Procs \ Requests : timeout[p] = 0
    /\ clientTimeout \in (1 .. MaxClientTimeout) \cup {DefaultTimeout}
    /\ InitNoHeaders
    /\ InitFn

NextDeadline ==
    \/ \E p \in Procs : Begin(p)
    \/ \E p \in Procs : Attempt(p)
    \/ \E p \in Procs : RetryTimerFired(p)
    \/ \E p \in Procs : RetryCtxDone(p)
    \/ \E p \in Procs : Cancel(p)
    \/ \E p \in Procs : Expire(p)
    \/ Tick

SpecDeadline == InitDeadline /\ [][NextDeadline]_vars

\* ------------------------------------------- requests and response bodies
\* a client built by New with WithRetry, with or without a middleware that may
\* return a response together with an error, and a caller about to issue a
\* bodiless request under a live context
InitWire ==
    /\ now = 0
    /\ rateLimiter = FALSE
    /\ refillRate = [requests |-> 1, duration |-> 1]
    /\ tokens = 0
    /\ maxTokens = 0
    /\ lastRefill = 0
    /\ mu = 0
    /\ retryPolicy \in Policies \cup {NilPolicy}
    /\ ctx = [p \in Procs |-> "live"]
    /\ pc = [p \in Procs |-> IF p \in Requests THEN "start" ELSE "unused"]
    /\ waitCtx = [p \in Procs |-> "none"]
    /\ timer = [p \in Procs |-> 0]
    /\ waitErr = [p \in Procs |-> "none"]
    /\ InitHist
    /\ InitReq
    /\ middlewares \in {<<>>, <<Pairing>>}
    /\ body = [p \in Procs |-> NilBody]
    /\ InitNoTimeout
    /\ InitNoHeaders
    /\ InitFn

NextWire ==
    \/ \E p \in Procs : Begin(p)
    \/ \E p \in Procs : Attempt(p)
    \/ \E p \in Procs : RetryTimerFired(p)
    \/ \E p \in Procs : RetryCtxDone(p)
    \/ \E p \in Procs : Cancel(p)
    \/ \E p \in Procs : Expire(p)
    \/ Tick

SpecWire == InitWire /\ [][NextWire]_vars

\* ------------------------------------------------- headers of a request
\* a client built by New with or without WithHeader("Content-Type", ...),
\* WithDefaultContentType and WithRetry, and a caller about to issue a request
\* with any body, with or without WithRequestHeader("Content-Type", ...) and
\* WithContentType
InitHeaders ==
    /\ now = 0
    /\ rateLimiter = FALSE
    /\ refillRate = [requests |-> 1, duration |-> 1]
    /\ tokens = 0
    /\ maxTokens = 0
    /\ lastRefill = 0
    /\ mu = 0
    /\ retryPolicy \in {NilPolicy} \cup {p \in Policies : p.MaxAttempts = 2 /\ p.Jitter = 0}
    /\ ctx = [p \in Procs |-> "live"]
    /\ pc = [p \in Procs |-> IF p \in Requests THEN "start" ELSE "unused"]
    /\ waitCtx = [p \in Procs |-> "none"]
    /\ timer = [p \in Procs |-> 0]
    /\ waitErr = [p \in Procs |-> "none"]
    /\ InitHist
    /\ InitReq
    /\ middlewares = <<>>
    /\ InitNoTimeout
    /\ \E ct \in {<<>>, <<"text/html">>} :
          clientHeaders = [HeaderSet(NoHeader, "Accept", "application/json")
                             EXCEPT !["Content-Type"] = ct]
    /\ defaultContentType \in {"application/json", "text/xml"}
    /\ \E ct \in {<<>>, <<"text/csv">>} :
          cfgHeaders = [p \in Procs |->
                          IF p \in Requests THEN [NoHeader EXCEPT !["Content-Type"] = ct]
                          ELSE NoHeader]
    /\ \E ct \in {"", "text/plain"} :
          cfgContentType = [p \in Procs |-> IF p \in Requests THEN ct ELSE ""]
    /\ body \in [Procs -> Bodies]
    /\ \A p \in Procs \ Requests : body[p] = NilBody
    /\ InitFn

SpecHeaders == InitHeaders /\ [][NextExec]_vars

\* ------------------------------------------ two requests on one client
\* the goroutines that issue a request on the shared client
Sharers == {0, 1}

\* a client built by New with WithRateLimit(1, 1 tick) and WithRetry of two
\* attempts, and two goroutines about to issue a bodiless request on it under
\* live contexts, the first of them with WithContentType
InitShared ==
    /\ now = 0
    /\ InitLimiter(1, 1)
    /\ retryPolicy \in {p \in Policies : p.MaxAttempts = 2 /\ p.Jitter = 0}
    /\ ctx = [p \in Procs |-> "live"]
    /\ pc = [p \in Procs |-> IF p \in Sharers THEN "start" ELSE "unused"]
    /\ waitCtx = [p \in Procs |-> "none"]
    /\ timer = [p \in Procs |-> 0]
    /\ waitErr = [p \in Procs |-> "none"]
    /\ InitHist
    /\ InitReq
    /\ middlewares = <<>>
    /\ InitNoTimeout
    /\ clientHeaders = HeaderSet(NoHeader, "Accept", "application/json")
    /\ defaultContentType = "application/json"
    /\ cfgHeaders = [p \in Procs |-> NoHeader]
    /\ cfgContentType = [p \in Procs |-> IF p = 0 THEN "text/plain" ELSE ""]
    /\ body = [p \in Procs |-> NilBody]
    /\ InitFn

NextShared ==
    \/ \E p \in Procs : Begin(p)
    \/ \E p \in Procs : Lock(p)
    \/ \E p \in Procs : Check(p)
    \/ \E p \in Procs : TimerFired(p)
    \/ \E p \in Procs : AfterWait(p)
    \/ \E p \in Procs : Attempt(p)
    \/ \E p \in Procs : RetryTimerFired(p)
    \/ Tick

SpecShared == InitShared /\ [][NextShared]_vars

\* ------------------------------------- calls of the package's functions
HeaderChars == {"0", "7", "-", "x"}

\* Retry-After values: every string of up to MaxHeaderLen characters
HeaderValues ==
    UNION { [1 .. n -> HeaderChars] : n \in 0 .. MaxHeaderLen }

\* policies built as a struct literal; delays in ticks, Jitter in percent
PolicyArgs ==
    { [nil |-> FALSE, MaxAttempts |-> MaxPolicyAttempts, InitialDelay |-> i,
       MaxDelay |-> m, Multiplier |-> x, Jitter |-> j] :
         i \in 0 .. MaxDelayArg, m \in 0 .. MaxDelayArg, x \in {1, 2, 3},
         j \in {0, 10, 50, 100} }

StatusCodes == {0} \cup (100 .. 599)

Calls ==
    { [NoCall EXCEPT !.fn = "ParseRetryAfter", !.value = v] : v \in HeaderValues }
    \cup
    { [NoCall EXCEPT !.fn = "Backoff", !.policy = p, !.attempt = a] :
         p \in PolicyArgs, a \in -1 .. MaxAttemptArg }
    \cup
    { [NoCall EXCEPT !.fn = "ShouldRetry", !.statusCode = st] : st \in StatusCodes }
    \cup
    { [NoCall EXCEPT !.fn = "IsRetryable", !.kind = k, !.statusCode = st] :
         k \in ErrorKinds, st \in StatusCodes }

Returns(r) ==
    /\ ~ret.done
    /\ ret' = r
    /\ UNCHANGED <<now, limiterVars, procVars, histVars, reqVars, execVars, call, mockVars, hdrVars, sentVars>>

CallParseRetryAfter ==
    /\ call.fn = "ParseRetryAfter"
    /\ Returns([NoRet EXCEPT !.done = TRUE, !.duration = ParseRetryAfter(call.value)])

CallBackoff ==
    /\ call.fn = "Backoff"
    /\ \E d \in Backoff(call.policy, call.attempt) :
          Returns([NoRet EXCEPT !.done = TRUE, !.duration = d])

CallShouldRetry ==
    /\ call.fn = "ShouldRetry"
    /\ Returns([NoRet EXCEPT !.done = TRUE, !.bool = ShouldRetry(call.statusCode)])

CallIsRetryable ==
    /\ call.fn = "IsRetryable"
    /\ Returns([NoRet EXCEPT !.done = TRUE,
                             !.bool = IsRetryable(call.kind, call.statusCode)])

\* one call of one of the functions, with any arguments
InitCalls ==
    /\ now = 0
    /\ rateLimiter = FALSE
    /\ refillRate = [requests |-> 1, duration |-> 1]
    /\ tokens = 0
    /\ maxTokens = 0
    /\ lastRefill = 0
    /\ mu = 0
    /\ retryPolicy = NilPolicy
    /\ ctx = [p \in Procs |-> "live"]
    /\ pc = [p \in Procs |-> "unused"]
    /\ waitCtx = [p \in Procs |-> "none"]
    /\ timer = [p \in Procs |-> 0]
    /\ waitErr = [p \in Procs |-> "none"]
    /\ InitHist
    /\ InitReq
    /\ InitNoRequest
    /\ call \in Calls
    /\ ret = NoRet
    /\ InitNoMock

NextCalls ==
    \/ CallParseRetryAfter
    \/ CallBackoff
    \/ CallShouldRetry
    \/ CallIsRetryable

SpecCalls == InitCalls /\ [][NextCalls]_vars

\* ---------------------------------------------------------- MockTransport
NoResp == [kind |-> "none", id |-> 0]

\* the steps of RoundTrip leave everything but the MockTransport alone
MockStep(g, to) ==
    /\ rt' = [rt EXCEPT ![g] = to]
    /\ UNCHANGED <<now, limiterVars, procVars, histVars, reqVars, execVars, fnVars,
                   hdrVars, sentVars, responses>>

\* m.mu.Lock(); m.requests = append(m.requests, req); m.mu.Unlock()
RoundTripRecord(g) ==
    /\ rt[g] = "record"
    /\ readers = {}
    /\ mockRequests' = mockRequests + 1
    /\ MockStep(g, "rlock")
    /\ UNCHANGED <<index, readers, loaded, mockResp>>

\* m.mu.RLock(); defer m.mu.RUnlock()
RoundTripRLock(g) ==
    /\ rt[g] = "rlock"
    /\ readers' = readers \cup {g}
    /\ MockStep(g, "check")
    /\ UNCHANGED <<index, mockRequests, loaded, mockResp>>

\* if seq.index < len(seq.responses); else no handler is registered
RoundTripCheck(g) ==
    /\ rt[g] = "check"
    /\ IF index < Len(responses)
       THEN /\ MockStep(g, "pick")
            /\ UNCHANGED mockResp
       ELSE /\ MockStep(g, "runlock")
            /\ mockResp' = [mockResp EXCEPT ![g] = [kind |-> "error", id |-> 0]]
    /\ UNCHANGED <<index, mockRequests, readers, loaded>>

\* resp := seq.responses[seq.index]: seq.index is written by other goroutines
\* under the same read lock, so this read may see a later value than the check
RoundTripPick(g) ==
    /\ rt[g] = "pick"
    /\ IF index < Len(responses)
       THEN /\ MockStep(g, "load")
            /\ mockResp' = [mockResp EXCEPT ![g] =
                               [kind |-> "response", id |-> responses[index + 1]]]
       ELSE /\ MockStep(g, "runlock")
            /\ mockResp' = [mockResp EXCEPT ![g] = [kind |-> "panic", id |-> 0]]
    /\ UNCHANGED <<index, mockRequests, readers, loaded>>

\* seq.index++: the read
RoundTripLoad(g) ==
    /\ rt[g] = "load"
    /\ loaded' = [loaded EXCEPT ![g] = index]
    /\ MockStep(g, "store")
    /\ UNCHANGED <<index, mockRequests, readers, mockResp>>

\* seq.index++: the write
RoundTripStore(g) ==
    /\ rt[g] = "store"
    /\ index' = loaded[g] + 1
    /\ MockStep(g, "runlock")
    /\ UNCHANGED <<mockRequests, readers, loaded, mockResp>>

\* the deferred m.mu.RUnlock(), and the return
RoundTripRUnlock(g) ==
    /\ rt[g] = "runlock"
    /\ readers' = readers \ {g}
    /\ MockStep(g, "returned")
    /\ UNCHANGED <<index, mockRequests, loaded, mockResp>>

\* a MockTransport with a response sequence registered for one path, and
\* NumCallers goroutines about to call RoundTrip for that path
InitMock ==
    /\ now = 0
    /\ rateLimiter = FALSE
    /\ refillRate = [requests |-> 1, duration |-> 1]
    /\ tokens = 0
    /\ maxTokens = 0
    /\ lastRefill = 0
    /\ mu = 0
    /\ retryPolicy = NilPolicy
    /\ ctx = [p \in Procs |-> "live"]
    /\ pc = [p \in Procs |-> "unused"]
    /\ waitCtx = [p \in Procs |-> "none"]
    /\ timer = [p \in Procs |-> 0]
    /\ waitErr = [p \in Procs |-> "none"]
    /\ InitHist
    /\ InitReq
    /\ InitNoRequest
    /\ call = NoCall
    /\ ret = NoRet
    /\ \E n \in 1 .. MaxSequence : responses = [i \in 1 .. n |-> i]
    /\ index = 0
    /\ mockRequests = 0
    /\ readers = {}
    /\ rt = [p \in Procs |-> IF p \in Callers THEN "record" ELSE "unused"]
    /\ loaded = [p \in Procs |-> 0]
    /\ mockResp = [p \in Procs |-> NoResp]

NextMock ==
    \/ \E g \in Callers : RoundTripRecord(g)
    \/ \E g \in Callers : RoundTripRLock(g)
    \/ \E g \in Callers : RoundTripCheck(g)
    \/ \E g \in Callers : RoundTripPick(g)
    \/ \E g \in Callers : RoundTripLoad(g)
    \/ \E g \in Callers : RoundTripStore(g)
    \/ \E g \in Callers : RoundTripRUnlock(g)

SpecMock == InitMock /\ [][NextMock]_vars

\* ================================================================ claims
Req == CHOOSE p \in Requests : TRUE

ConfiguredAttempts == IF retryPolicy.nil THEN 1 ELSE retryPolicy.MaxAttempts

\* the middleware chain's latest answer was a fully read response
Answered(p) == lastOutcome[p].kind = "response" /\ lastOutcome[p].readOK

AnsweredResponse(p) ==
    [nil |-> FALSE, StatusCode |-> lastOutcome[p].StatusCode,
     Body |-> lastOutcome[p].Body, RetryAfter |-> lastOutcome[p].RetryAfter]

\* C1: with a retry policy of MaxAttempts = M >= 1, a request whose every
\* attempt was answered with a retryable status ends after exactly M attempts
\* and returns the last response with an HTTP-kind error whose Attempts is M.
C1_AttemptExhaustion ==
    ( /\ pc[Req] = "done"
      /\ ~retryPolicy.nil
      /\ retryPolicy.MaxAttempts >= 1
      /\ attempts[Req] >= 1
      /\ retryable[Req] = attempts[Req] )
    => /\ attempts[Req] = retryPolicy.MaxAttempts
       /\ retResp[Req] = AnsweredResponse(Req)
       /\ retResp[Req].StatusCode \in {408, 429, 502, 503, 504}
       /\ retErr[Req].classified
       /\ retErr[Req].Kind = "HTTP"
       /\ retErr[Req].StatusCode = retResp[Req].StatusCode
       /\ retErr[Req].Attempts = retryPolicy.MaxAttempts

C1_Witness ==
    /\ pc[Req] = "done"
    /\ ~retryPolicy.nil
    /\ retryPolicy.MaxAttempts = MaxPolicyAttempts
    /\ attempts[Req] = MaxPolicyAttempts
    /\ retryable[Req] = MaxPolicyAttempts
    /\ retErr[Req].Attempts = MaxPolicyAttempts

\* attempts 1..k-1 were answered with a retryable status and attempt k with a
\* status below 400, its body read in full
SucceededAtK(p) ==
    /\ Answered(p)
    /\ lastOutcome[p].StatusCode < 400
    /\ retryable[p] = attempts[p] - 1

\* C2 as stated: after attempts 1..k-1 with a retryable status and attempt k
\* with a status below 400 the request returns that response with a nil error
\* after exactly k attempts, and no attempt follows the successful one.
C2_Original ==
    SucceededAtK(Req)
    => /\ pc[Req] = "done"
       /\ retResp[Req] = AnsweredResponse(Req)
       /\ retErr[Req].nil
       /\ attempts[Req] = attempt[Req]

\* C2 amended: in that case the request is over after exactly k attempts and
\* returns that response; the error is nil unless a result target was supplied
\* and the non-empty body does not deserialize into it, in which case the
\* response comes with the deserialization error.
C2_SuccessfulRetry ==
    SucceededAtK(Req)
    => /\ pc[Req] = "done"
       /\ attempts[Req] = attempt[Req]
       /\ attempts[Req] <= ConfiguredAttempts
       /\ retResp[Req] = AnsweredResponse(Req)
       /\ IF result[Req] /\ lastOutcome[Req].Body = "garbage"
          THEN retErr[Req] = PlainError("json")
          ELSE retErr[Req].nil

C2_Witness ==
    /\ pc[Req] = "done"
    /\ SucceededAtK(Req)
    /\ attempts[Req] = MaxPolicyAttempts
    /\ retResp[Req].StatusCode = 200
    /\ retErr[Req].nil

\* C3: an attempt answered with a status >= 400 that is not retryable (400,
\* 401, 404, 500) ends the request at that attempt, with an error, even when
\* attempts remain; a first-attempt 400 under a retry policy gives 1 attempt.
C3_NonRetryableShortCircuit ==
    ( /\ Answered(Req)
      /\ lastOutcome[Req].StatusCode \in {400, 401, 404, 500} )
    => /\ pc[Req] = "done"
       /\ attempts[Req] = attempt[Req]
       /\ ~retErr[Req].nil
       /\ retErr[Req].Kind = "HTTP"
       /\ retResp[Req] = AnsweredResponse(Req)
       /\ (attempt[Req] = 1 => attempts[Req] = 1)

C3_Witness ==
    /\ pc[Req] = "done"
    /\ ~retryPolicy.nil
    /\ retryPolicy.MaxAttempts = MaxPolicyAttempts
    /\ MaxPolicyAttempts > 1
    /\ Answered(Req)
    /\ lastOutcome[Req].StatusCode = 400
    /\ attempts[Req] = 1

\* C4: the number of invocations of the middleware chain never exceeds the
\* policy's MaxAttempts, or 1 when no policy is set; without a policy the
\* request is over after its first attempt, whatever the attempt's outcome.
C4_AttemptBound ==
    /\ attempts[Req] <= ConfiguredAttempts
    /\ ( retryPolicy.nil /\ lastOutcome[Req].kind \in {"error", "response"}
         => pc[Req] = "done" /\ attempts[Req] = 1 )
    /\ ( retryPolicy.nil /\ pc[Req] \in {"attempt", "backoff"}
         => attempts[Req] = 0 /\ pc[Req] = "attempt" )

C4_Witness ==
    /\ retryPolicy.nil
    /\ pc[Req] = "done"
    /\ attempts[Req] = 1
    /\ lastOutcome[Req].kind = "response"
    /\ lastOutcome[Req].StatusCode = 503

\* C5: with a limiter configured, every attempt of the request is preceded by
\* exactly one debit made by the request, and retries make no further debit; a
\* failed acquisition returns a RateLimit-kind error with a nil response, no
\* debit and no attempt.
C5_RateLimitOncePerRequest ==
    /\ debited[Req] <= 1
    /\ (~rateLimiter => debited[Req] = 0)
    /\ (rateLimiter /\ pc[Req] \in {"attempt", "backoff"} => debited[Req] = 1)
    /\ (rateLimiter /\ attempts[Req] >= 1 => debited[Req] = 1)
    /\ ( waitErr[Req] \in {"canceled", "deadline"} /\ pc[Req] = "done"
         => /\ retErr[Req].classified
            /\ retErr[Req].Kind = "RateLimit"
            /\ retResp[Req].nil
            /\ attempts[Req] = 0
            /\ debited[Req] = 0 )

C5_Witness ==
    /\ rateLimiter
    /\ pc[Req] = "done"
    /\ attempts[Req] >= 2
    /\ waits[Req] >= 1
    /\ debited[Req] = 1

C5_WitnessFailure ==
    /\ rateLimiter
    /\ pc[Req] = "done"
    /\ retErr[Req].Kind = "RateLimit"

\* ---------------------------------------------------- limiter claims
Permits == refillRate.requests
Window == refillRate.duration

Granted == SumOver(debited, Callers)
Checked == Cardinality({p \in Callers : checked[p]})
Succeeded == Cardinality({p \in Callers : pc[p] = "wait_ok"})

\* debits made at the times t with from <= t <= to
RECURSIVE GrantsBetween(_, _)
GrantsBetween(from, to) ==
    IF from > to \/ from > MaxTime THEN 0
    ELSE grantLog[from] + GrantsBetween(from + 1, to)

\* C6: while no time has elapsed since a limiter with N permits was built,
\* the callers that have run their check were granted exactly min(K, N)
\* permits without waiting, every caller beyond the N-th is waiting, and the
\* tokens handed out and the tokens left add up to N: none is granted twice.
C6_CapacityUnderConcurrency ==
    now = 0
    => /\ Granted = Min(Checked, Permits)
       /\ tokens + Granted * Scale = Permits * Scale
       /\ \A p \in Callers : debited[p] <= 1
       /\ \A p \in Callers : pc[p] = "wait_ok" => debited[p] = 1 /\ ~slept[p]
       /\ \A p \in Callers : checked[p] /\ debited[p] = 0 => slept[p] /\ pc[p] # "wait_ok"

C6_Witness ==
    /\ now = 0
    /\ Checked = NumCallers
    /\ NumCallers > Permits
    /\ Granted = Permits
    /\ \E p \in Callers : pc[p] = "wait_select"

\* C7: in every reachable state 0 <= tokens <= capacity.
C7_TokenBucketInvariant ==
    /\ 0 <= tokens
    /\ tokens <= Permits * Scale
    /\ maxTokens = Permits * Scale

\* a debit from a bucket that a refill over more than a window had to cap
C7_Witness ==
    /\ Permits = 1
    /\ Window = 1
    /\ lastRefill = 2
    /\ grantLog[0] = 1
    /\ grantLog[1] = 0
    /\ grantLog[2] = 1
    /\ tokens = 0

\* C8 as stated: a Wait entered with an already cancelled or expired context
\* never debits a token and never returns success.
C8_CancelledWaitNeverGrants ==
    \A p \in Callers :
        waitCtx[p] \in {"canceled", "deadline"}
        => debited[p] = 0 /\ pc[p] # "wait_ok" /\ waitErr[p] # "nil"

\* C9: a Wait that returned the context's error made no debit, a Wait that
\* returned nil made exactly one, and the debits of all Wait calls number the
\* Wait calls that returned nil.
C9_FailedWaitNoDebit ==
    /\ \A p \in Callers : pc[p] = "wait_err" => debited[p] = 0 /\ waitErr[p] \in {"canceled", "deadline"}
    /\ \A p \in Callers : pc[p] = "wait_ok" => debited[p] = 1 /\ waitErr[p] = "nil"
    /\ Granted = Succeeded
    /\ tokens <= Permits * Scale - Granted * Scale + now * Permits

C9_Witness ==
    /\ \E p \in Callers : pc[p] = "wait_err" /\ slept[p]
    /\ \E p \in Callers : pc[p] = "wait_ok" /\ slept[p]

\* C10 as stated: in any time interval of length D at most N Wait calls
\* succeed (intervals taken half-open, t <= time < t + D).
C10_Original ==
    \A t \in 0 .. MaxTime : GrantsBetween(t, t + Window - 1) <= Permits

\* C10 amended: in any time interval of length D (closed, t <= time <= t + D)
\* at most 2N tokens are debited: the burst of N plus the N refilled over D.
C10_WindowBound ==
    \A t \in 0 .. MaxTime : GrantsBetween(t, t + Window) <= 2 * Permits

C10_Witness ==
    \E t \in 0 .. MaxTime :
        /\ t + Window - 1 <= MaxTime
        /\ GrantsBetween(t, t + Window - 1) > Permits

Onion(mws) ==
    LET n == Len(mws) IN
    [i \in 1 .. 2 * n + 1 |->
        IF i <= n THEN <<mws[i], "before">>
        ELSE IF i = n + 1 THEN <<"transport", "call">>
        ELSE <<mws[2 * n + 2 - i], "after">>]

\* C12: in every attempt in which each middleware calls next, the middlewares
\* m1..mn registered in that order run as m1-before, ..., mn-before, transport,
\* mn-after, ..., m1-after; for [A, B] the sequence is A-before, B-before,
\* transport, B-after, A-after.
C12_MiddlewareOrdering ==
    attempts[Req] >= 1 /\ shortCircuit[Req] = "none"
    => /\ trace[Req] = Onion(middlewares)
       /\ ( middlewares = <<"A", "B">>
            => trace[Req] = << <<"A", "before">>, <<"B", "before">>,
                               <<"transport", "call">>,
                               <<"B", "after">>, <<"A", "after">> >> )

\* a retried request on a client with two middlewares
C12_Witness ==
    /\ middlewares = <<"A", "B">>
    /\ attempts[Req] >= 2
    /\ shortCircuit[Req] = "none"
    /\ Len(trace[Req]) = 5
    /\ trace[Req][3] = <<"transport", "call">>

\* position of middleware m in the registration order
Position(m) == CHOOSE i \in 1 .. Len(middlewares) : middlewares[i] = m

\* C13: in an attempt in which a middleware returns without calling next,
\* only the middlewares registered up to it run, neither the transport nor a
\* later middleware does, and the request goes on as it does for a transport
\* response: a status below 400 ends it with that response, a status of 400
\* or more ends it with that response and an HTTP error unless the status is
\* retryable and attempts remain, in which case the request waits and retries.
C13_MiddlewareShortCircuit ==
    attempts[Req] >= 1 /\ shortCircuit[Req] # "none"
    => LET k == Position(shortCircuit[Req])
           st == lastOutcome[Req].StatusCode
           retry == /\ ~retryPolicy.nil
                    /\ attempts[Req] < retryPolicy.MaxAttempts
                    /\ st \in {408, 429, 502, 503, 504}
       IN /\ trace[Req] = [i \in 1 .. 2 * k |->
                              IF i <= k THEN <<middlewares[i], "before">>
                              ELSE <<middlewares[2 * k + 1 - i], "after">>]
          /\ \A i \in 1 .. Len(trace[Req]) :
                /\ trace[Req][i][1] # "transport"
                /\ \A j \in k + 1 .. Len(middlewares) : trace[Req][i][1] # middlewares[j]
          /\ ( Answered(Req) /\ st < 400
               => /\ pc[Req] = "done"
                  /\ retResp[Req] = AnsweredResponse(Req)
                  /\ retErr[Req] = Decode(result[Req], lastOutcome[Req].Body) )
          /\ ( Answered(Req) /\ st >= 400 /\ ~retry
               => /\ pc[Req] = "done"
                  /\ retResp[Req] = AnsweredResponse(Req)
                  /\ retErr[Req] = ClassifiedError("HTTP", st, attempts[Req], "none") )
          /\ ( Answered(Req) /\ st >= 400 /\ retry
               => /\ pc[Req] \in {"backoff", "attempt"}
                  /\ retResp[Req].nil
                  /\ retErr[Req].nil )

\* the first of two middlewares answers 200 by itself and the request ends
C13_Witness ==
    /\ middlewares = <<"A", "B">>
    /\ shortCircuit[Req] = "A"
    /\ trace[Req] = << <<"A", "before">>, <<"A", "after">> >>
    /\ Answered(Req)
    /\ lastOutcome[Req].StatusCode = 200
    /\ pc[Req] = "done"
    /\ retErr[Req].nil

\* C14: the body is encoded exactly once per request, before the attempt
\* loop; the encoded bytes never change afterwards and every attempt, first
\* try or retry, sends exactly those bytes from their first byte on.
C14_BodyReplay ==
    /\ [](/\ encodes[Req] <= 1
          /\ (pc[Req] # "start" => encodes[Req] = 1)
          /\ (attempts[Req] >= 1
                => /\ bodyBytes[Req] = EncodedBytes(EncodeBody(body[Req]))
                   /\ sentBody[Req] = bodyBytes[Req]))
    /\ [][pc[Req] # "start"
            => bodyBytes'[Req] = bodyBytes[Req] /\ encodes'[Req] = encodes[Req]]_vars

\* a JSON body sent a second time
C14_Witness ==
    /\ body[Req].kind = "json"
    /\ attempts[Req] >= 2
    /\ encodes[Req] = 1
    /\ sentBody[Req] = [nil |-> FALSE, data |-> <<"[", "1", ",", "2", "]">>]

\* the delay given to the waitForRetry in progress
WaitDelay(p) == timer[p] - waitStart[p]

Returned(fn) == call.fn = fn /\ ret.done

\* C16 as stated: ParseRetryAfter returns a non-negative duration for every
\* input; empty, non-integer and negative-integer values give 0 and a
\* non-negative integer n gives n seconds.
C16_ParseRetryAfterNonNegative ==
    Returned("ParseRetryAfter")
    => LET v == call.value
           digits == \A i \in 1 .. Len(v) : v[i] \in {"0", "7"}
           negative == Len(v) >= 2 /\ v[1] = "-"
                       /\ \A i \in 2 .. Len(v) : v[i] \in {"0", "7"}
       IN /\ ret.duration >= 0
          /\ (v = <<>> => ret.duration = 0)
          /\ (v # <<>> /\ ~digits => ret.duration = 0)
          /\ (negative => ret.duration = 0)
          /\ (v = <<"7">> => ret.duration = 7 * TicksPerSecond)
          /\ (v = <<"0">> => ret.duration = 0)
          /\ (v = <<"7", "0">> => ret.duration = 70 * TicksPerSecond)

\* min(InitialDelay * Multiplier^(k-1), MaxDelay) for attempt k >= 1
CappedBase(p, k) == Min(p.InitialDelay * p.Multiplier ^ (k - 1), p.MaxDelay)

\* C17: without jitter Backoff(k) is min(InitialDelay * Multiplier^(k-1),
\* MaxDelay), an attempt <= 0 counting as attempt 1; Backoff(k+1) is never
\* below Backoff(k), and Backoff(k) is MaxDelay wherever the exponential
\* exceeds it; 1 tick, x2, cap 10 gives 1, 2, 4, 8.
C17_BackoffWithoutJitter ==
    Returned("Backoff") /\ call.policy.Jitter = 0
    => LET p == call.policy
           k == call.attempt
       IN /\ ret.duration = CappedBase(p, Max(k, 1))
          /\ (k <= 0 => Backoff(p, k) = Backoff(p, 1))
          /\ \A d \in Backoff(p, k + 1) : d >= ret.duration
          /\ ( k >= 1 /\ p.InitialDelay * p.Multiplier ^ (k - 1) > p.MaxDelay
               => ret.duration = p.MaxDelay )
          /\ ( p.InitialDelay = 1 /\ p.Multiplier = 2 /\ p.MaxDelay = 10 /\ k \in 1 .. 4
               => ret.duration = <<1, 2, 4, 8>>[k] )

\* the fourth delay of the doubling policy, still below its cap
C17_Witness ==
    /\ Returned("Backoff")
    /\ call.policy.Jitter = 0
    /\ call.policy.InitialDelay = 1
    /\ call.policy.Multiplier = 2
    /\ call.policy.MaxDelay = 10
    /\ call.attempt = 4
    /\ ret.duration = 8

\* C18: for a jitter fraction j in [0, 1] and every attempt k the duration
\* Backoff returns is at least 0 and at most MaxDelay * (1 + j), and lies
\* between base * (1 - j) and base * (1 + j) for the capped base delay of the
\* attempt, as whole ticks: time.Duration drops the fraction of a tick, so
\* the lower end is base * (1 - j) without its fraction.
C18_BackoffBounds ==
    Returned("Backoff")
    => LET p == call.policy
           j == p.Jitter
           base == CappedBase(p, Max(call.attempt, 1))
       IN /\ 0 <= ret.duration
          /\ 100 * ret.duration <= p.MaxDelay * (100 + j)
          /\ 100 * ret.duration <= base * (100 + j)
          /\ ret.duration >= (base * (100 - j)) \div 100

\* a delay at the lower end and one above the cap, both within the bounds
C18_Witness ==
    /\ Returned("Backoff")
    /\ call.policy.Jitter = 50
    /\ call.policy.InitialDelay = 2
    /\ call.policy.Multiplier = 3
    /\ call.policy.MaxDelay = 4
    /\ call.attempt = 2
    /\ ret.duration = 5

\* C19: ShouldRetry(status) is true exactly for 408, 429, 502, 503 and 504.
C19_RetryabilityTable ==
    Returned("ShouldRetry")
    => /\ ret.bool = (call.statusCode \in {408, 429, 502, 503, 504})
       /\ (call.statusCode \in {200, 201, 204, 400, 401, 404, 500} => ~ret.bool)

C19_Witness ==
    /\ Returned("ShouldRetry")
    /\ call.statusCode = 500
    /\ ~ret.bool

\* C20: IsRetryable is true exactly for the kinds Timeout and Network and for
\* the kind HTTP with a status among 408, 429, 502, 503, 504; for an error of
\* kind HTTP it is ShouldRetry of the status.
C20_IsRetryable ==
    Returned("IsRetryable")
    => /\ ret.bool = ( \/ call.kind = "Timeout"
                       \/ call.kind = "Network"
                       \/ /\ call.kind = "HTTP"
                          /\ call.statusCode \in {408, 429, 502, 503, 504} )
       /\ (call.kind \in {"Parse", "RateLimit", "Unknown"} => ~ret.bool)
       /\ (call.kind = "HTTP" => ret.bool = ShouldRetry(call.statusCode))

\* a rate-limit error that carries a retryable status is not retryable
C20_Witness ==
    /\ Returned("IsRetryable")
    /\ call.kind = "RateLimit"
    /\ call.statusCode = 503
    /\ ~ret.bool

\* the request is inside the attempt loop: running an attempt or waiting
InLoop(p) == pc[p] \in {"attempt", "backoff"}

\* C21: a request issued with a timeout runs its whole attempt loop under one
\* deadline: the deadline is set to entry time + timeout at the step that
\* enters the loop, no later step changes it (no attempt and no backoff wait
\* resets or extends it), and the clock never passes it while an attempt or a
\* backoff wait is in progress.
C21_TimeoutBoundsSequence ==
    /\ [](timeout[Req] > 0 /\ InLoop(Req) =>
            /\ deadline[Req] > 0
            /\ now <= deadline[Req]
            /\ deadline[Req] <= now + timeout[Req])
    /\ [][timeout[Req] > 0 /\ ~InLoop(Req) /\ pc'[Req] \in {"attempt", "backoff"} =>
            deadline'[Req] = now + timeout[Req]]_vars
    /\ [][timeout[Req] > 0 /\ InLoop(Req) => deadline'[Req] = deadline[Req]]_vars

\* a second attempt, made after a backoff wait, ran into the deadline set
\* before the first one
C21_Witness ==
    /\ timeout[Req] > 0
    /\ pc[Req] = "done"
    /\ attempts[Req] >= 2
    /\ waits[Req] >= 1
    /\ now = deadline[Req]
    /\ lastOutcome[Req].kind = "error"
    /\ lastOutcome[Req].cause = "deadline"
    /\ ~retErr[Req].nil
    /\ retErr[Req].Kind = "Timeout"

\* C22: a request issued without a per-request timeout is bounded by the
\* client-level timeout: it is never found in a backoff wait that has yet to
\* elapse later than the client-level timeout after that wait began (the
\* operation itself began no later than the wait did).
C22_ClientTimeoutBounds ==
    timeout[Req] = 0 /\ pc[Req] = "backoff" /\ now < timer[Req] =>
        now <= waitStart[Req] + clientTimeout

\* C23: when a backoff wait that has yet to elapse ends because the context
\* is done, the request returns at that step, with a classified error of kind
\* Timeout or Network, and the middleware chain is not invoked again.
C23_CancelledWaitUnwinds ==
    [][now < timer[Req] /\ RetryCtxDone(Req) =>
          /\ pc'[Req] = "done"
          /\ attempts'[Req] = attempts[Req]
          /\ ~retErr'[Req].nil
          /\ retErr'[Req].classified
          /\ retErr'[Req].Kind \in {"Timeout", "Network"}]_vars

\* C24: every error a request returns is a classified *Error whose kind is
\* one of Unknown, Timeout, Network, HTTP, Parse and RateLimit.
C24_EveryErrorClassified ==
    pc[Req] = "done" /\ ~retErr[Req].nil =>
        /\ retErr[Req].classified
        /\ retErr[Req].Kind \in ErrorKinds

\* C25: when the final response has a status below 400, a result target was
\* given and the non-empty body cannot be deserialized, the request returns
\* that response together with a classified error of kind Parse.
C25_ParseFailure ==
    ( /\ pc[Req] = "done"
      /\ Answered(Req)
      /\ ~IsErrorStatus(lastOutcome[Req].StatusCode)
      /\ result[Req]
      /\ lastOutcome[Req].Body = "garbage" )
    => /\ retResp[Req] = AnsweredResponse(Req)
       /\ ~retErr[Req].nil
       /\ retErr[Req].classified
       /\ retErr[Req].Kind = "Parse"

\* C26: a request that ends on a transport error returns a classified error
\* of kind Timeout when the cause is an expired deadline and of kind Network
\* when the cause is a cancellation or a connection-level failure.
C26_TransportErrorKind ==
    pc[Req] = "done" /\ lastOutcome[Req].kind = "error" =>
        /\ ~retErr[Req].nil
        /\ retErr[Req].classified
        /\ retErr[Req].Kind =
               IF lastOutcome[Req].cause = "deadline" THEN "Timeout" ELSE "Network"

\* C27: a classified error returned after k >= 1 attempts, whether the last
\* attempt ended in an HTTP status or in a transport failure, has Attempts = k.
C27_ErrorCarriesAttempts ==
    ( /\ pc[Req] = "done"
      /\ ~retErr[Req].nil
      /\ retErr[Req].classified
      /\ attempts[Req] >= 1 )
    => retErr[Req].Attempts = attempts[Req]

C29_NeverNilNil ==
    pc[Req] = "done" => ~(retResp[Req].nil /\ retErr[Req].nil)

\* C30: a request whose body cannot be encoded returns the encoding error at
\* its first step, before the rate limiter is touched: it is never seen
\* waiting for a permit or attempting, it takes no token, makes no attempt
\* and no wait, and the step that returns leaves the limiter as it was.
C30_EncodeFailureBeforeRateLimit ==
    /\ [](body[Req].kind = "unencodable" =>
            /\ pc[Req] \in {"start", "done"}
            /\ debited[Req] = 0
            /\ ~checked[Req]
            /\ ~slept[Req]
            /\ attempts[Req] = 0
            /\ waits[Req] = 0
            /\ (pc[Req] = "done" =>
                   /\ retResp[Req].nil
                   /\ ~retErr[Req].nil
                   /\ retErr[Req].Err = "encode"))
    /\ [][body[Req].kind = "unencodable" /\ Begin(Req) =>
            /\ pc'[Req] = "done"
            /\ UNCHANGED limiterVars
            /\ UNCHANGED <<debited, grantLog>>]_vars

\* a client with a rate limiter returned the encoding error of a request
C30_Witness ==
    /\ rateLimiter
    /\ body[Req].kind = "unencodable"
    /\ pc[Req] = "done"
    /\ encodes[Req] = 1
    /\ retErr[Req].Err = "encode"

\* C33: the limiter's mutex is held only inside the refill-and-debit check:
\* whoever holds it is in that check, so no caller sleeping on its timer or
\* context, and no caller that has returned, holds it, and a sleeping caller
\* never keeps another caller from taking the lock.
C33_NoSleepUnderLock ==
    /\ mu # 0 => pc[mu] = "wait_locked"
    /\ \A p \in Procs : pc[p] = "wait_locked" => mu = p
    /\ \A p \in Procs : pc[p] \in {"wait_select", "wait_ok", "wait_err"} => mu # p
    /\ (\A p \in Procs : pc[p] # "wait_locked") => mu = 0

\* one caller runs its check under the lock while another caller sleeps
C33_Witness ==
    \E p, q \in Callers :
        /\ pc[p] = "wait_select"
        /\ now < timer[p]
        /\ pc[q] = "wait_locked"
        /\ mu = q

\* C39: for a limiter of capacity N refilled at N per D, the number of tokens
\* debited at instants s .. e is at most N + N * (e - s) / D for every
\* interval, and the number debited since construction (instant 0) up to now
\* is at most N + N * now / D.  Both sides are multiplied by D.
C39_RateBound ==
    /\ \A s \in 0 .. MaxTime : \A e \in s .. MaxTime :
          GrantsBetween(s, e) * Window <= Permits * Window + Permits * (e - s)
    /\ GrantsBetween(0, now) * Window <= Permits * Window + Permits * now

\* the bound is met: with one token per window, three callers were granted
\* on three consecutive instants
C39_Witness ==
    /\ Permits = 1
    /\ Window = 1
    /\ now = 2
    /\ GrantsBetween(0, now) * Window = Permits * Window + Permits * now
    /\ \E p \in Callers : pc[p] = "wait_ok" /\ slept[p]

\* C35: a request that returns an error after its attempts are exhausted
\* returns it with the response last obtained during the request, so the
\* returned response is nil only if no attempt obtained a response.
C35_LastResponseReturned ==
    ( /\ pc[Req] = "done"
      /\ ~retErr[Req].nil
      /\ attempts[Req] >= 1
      /\ attempts[Req] = ConfiguredAttempts
      /\ ~response[Req].nil )
    => retResp[Req] = response[Req]

\* C37: whenever the request waits to retry, the error recorded for the
\* attempt that failed is a classified error for which IsRetryable() is true.
C37_RetriedErrorIsRetryable ==
    pc[Req] = "backoff" =>
        /\ ~lastErr[Req].nil
        /\ lastErr[Req].classified
        /\ IsRetryable(lastErr[Req].Kind, lastErr[Req].StatusCode)

C40_SequenceUnderConcurrency ==
    /\ \A g, h \in Callers :
          g # h /\ mockResp[g].kind = "response" /\ mockResp[h].kind = "response"
          => mockResp[g].id # mockResp[h].id
    /\ \A g \in Callers : mockResp[g].kind # "panic"
    /\ (\A g \in Callers : rt[g] = "returned") =>
          {mockResp[g].id : g \in {h \in Callers : mockResp[h].kind = "response"}}
             = 1 .. Min(NumCallers, Len(responses))
    /\ mockRequests = Cardinality({g \in Callers : rt[g] # "record"})

\* C34: when the request has returned, the body of every response an attempt
\* obtained has been closed, whichever path the attempt took: success, HTTP
\* error, read error, retry, or a response returned by a middleware together
\* with an error.
C34_BodiesClosed == pc[Req] = "done" => open[Req] = {}

\* C32: the attempts of one request are strictly sequential.  At every moment
\* at most one attempt has started and not finished; attempt N+1 starts only
\* from the wait that follows attempt N, once that wait's timer has fired or
\* its context is done, with attempt N finished and, when attempt N was
\* answered, its body read and closed.
C32_AttemptsSequential ==
    /\ [](\A p \in Requests :
            /\ attempt[p] >= 1 => attempts[p] \in {attempt[p] - 1, attempt[p]}
            /\ pc[p] = "attempt" => attempts[p] = attempt[p] - 1
            /\ pc[p] = "backoff" => attempts[p] = attempt[p])
    /\ [][\A p \in Requests :
            pc'[p] = "attempt" /\ attempt'[p] # attempt[p] /\ attempt[p] >= 1 =>
               /\ attempt'[p] = attempt[p] + 1
               /\ pc[p] = "backoff"
               /\ attempts[p] = attempt[p]
               /\ now >= timer[p] \/ Done(p)
               /\ lastOutcome[p].kind = "response" => attempt[p] \notin open[p]]_vars

\* the second attempt has started under a live context, after the wait that
\* followed an answered first attempt elapsed
C32_Witness ==
    /\ pc[Req] = "attempt"
    /\ attempt[Req] = 2
    /\ attempts[Req] = 1
    /\ waits[Req] = 1
    /\ ctx[Req] = "live"
    /\ lastOutcome[Req].kind = "response"
    /\ now >= 1

\* the Content-Type values of the request p sends; bare is what a request
\* without body and without override carries
ContentTypeSent(p, bare) ==
    IF cfgContentType[p] # "" THEN <<cfgContentType[p]>>
    ELSE IF body[p].kind = "json" THEN <<"application/json">>
    ELSE IF body[p].kind # "nil" THEN <<defaultContentType>>
    ELSE bare

\* C36 as stated: every attempt's request carries exactly one Content-Type,
\* the per-request override, else the encoder's content type, else, with a
\* body, the client default, whatever the default and per-request headers
\* hold; without body and without override it carries none.
C36_Original ==
    attempts[Req] >= 1 => reqHeader[Req]["Content-Type"] = ContentTypeSent(Req, <<>>)

\* C36: every attempt's request carries exactly one Content-Type, the
\* per-request override, else the encoder's content type, else, with a body,
\* the client default, whatever the default and per-request headers hold;
\* without body and without override it carries the Content-Type of the
\* per-request headers, else that of the client's default headers, else none.
C36_ContentTypePrecedence ==
    attempts[Req] >= 1 =>
        reqHeader[Req]["Content-Type"] =
            ContentTypeSent(Req, IF cfgHeaders[Req]["Content-Type"] # <<>>
                                 THEN cfgHeaders[Req]["Content-Type"]
                                 ELSE clientHeaders["Content-Type"])

\* a request without body and without override has been sent by a client
\* built with WithHeader("Content-Type", "text/html")
C36_Witness ==
    /\ attempts[Req] >= 1
    /\ body[Req].kind = "nil"
    /\ cfgContentType[Req] = ""
    /\ cfgHeaders[Req]["Content-Type"] = <<>>
    /\ clientHeaders["Content-Type"] = <<"text/html">>
    /\ reqHeader[Req]["Content-Type"] = <<"text/html">>

====
